---- MODULE Spec2Model ----
(***************************************************************************)
(* Model of the ICS merge engine of airbnbook: parse_events, key_for,      *)
(* merge_ics, fetch and POST /sync of fusion_service.py; unfold, fold and  *)
(* the SUMMARY translation of convert_fr_service.py; unfold and fold of    *)
(* src/utils.py; the iCal parser / storage path of src/ical_parser.py and  *)
(* src/storage.py; validate_url, fetch_ical, sync_calendar and             *)
(* sync_all_calendars of src/sync_service.py; add_calendar, save_events    *)
(* and delete_calendar of src/storage.py; the routes of /api/sources and   *)
(* the export of src/api.py; start, the sync loop and stop of src/main.py; *)
(* the summary translators of src/utils.py and src/api.py.                 *)
(*                                                                         *)
(* Text is modelled at the level of atoms: an atom is a fixed, indivisible *)
(* piece of text ("UID", ":", " ", "1", ...).  A line is a sequence of     *)
(* atoms, a string with several lines is a sequence of atoms in which the  *)
(* atom "\n" separates the lines.  The atoms are chosen so that a text has *)
(* exactly one decomposition, hence equality of atom sequences is equality *)
(* of the strings they stand for.                                          *)
(***************************************************************************)
EXTENDS Integers, Sequences, FiniteSets, TLC

VARIABLES
    m_pc,        \* merge_ics: "call" before the call, "done" after it
    m_a,         \* merge_ics: the argument airbnb_ics
    m_b,         \* merge_ics: the argument booking_ics
    m_order,     \* merge_ics: the order in which the list of line 60 is scanned
    m_seen,      \* merge_ics: the dict `seen`, in insertion order
    m_out,       \* merge_ics: the returned text
    m_raised,    \* merge_ics: TRUE when the call ended with an exception
    p_pc,        \* parse_events: "call" / "done"
    p_text,      \* parse_events: the argument ics_text
    p_evts,      \* parse_events: the returned list
    k_pc,        \* key_for: "call" / "done"
    k_evt,       \* key_for: the event string
    k_key,       \* key_for: the returned key
    i_pc,        \* sync of one calendar: "call", "parsed", "saved"
    i_comps,     \* the VEVENT components of the downloaded calendar, in order
    i_events,    \* the list returned by parse_ical
    i_count,     \* the reported number of events
    st_calendars,\* Storage._data["calendars"]: calendar id -> record
    st_events,   \* Storage._data["events"]: uid -> event
    st_disk,     \* the content of the JSON file: [calendars, events]
    d_pc,        \* idempotence run: "self", "empty", "again", "done"
    d_x,         \* the source text X
    d_self,      \* merge_ics(X, X)
    d_empty,     \* merge_ics(X, "")
    d_again,     \* merge_ics(merge_ics(X, X), "")
    c_pc,        \* fold / unfold run: "fold", "back", "plain", "done"
    c_impl,      \* the module whose fold and unfold are called
    c_text,      \* the text given to fold and unfold
    c_folded,    \* fold(text)
    c_back,      \* unfold(fold(text))
    c_plain,     \* unfold(text)
    t_pc,        \* translation: "call" before the call, "done" after it
    t_text,      \* the unfolded text given to translate_ics_summary_only
    t_out,       \* the returned text
    s_pc,        \* sync_all_calendars: "loop", "fetch" inside fetch_ical, "done"
    s_calendars, \* the argument calendars
    s_i,         \* the position in calendars the loop is at
    s_retries,   \* the retries made for the download in progress
    s_results,   \* the list results
    s_requests,  \* the requests sent, with the status each was answered with
    g_pc,        \* POST /sync of fusion_service: "start", "gather", "write", "done"
    g_urls,      \* config.AIRBNB_ICS and config.BOOKING_ICS, by origin
    g_task,      \* the two fetch tasks: "pending", "ok", "failed"
    g_text,      \* the texts the fetch tasks returned
    g_requests,  \* the requests sent
    g_merged,    \* the text merge_ics returned, None before
    g_file,      \* the content of OUTFILE, None when there is no file
    g_response,  \* the status POST /sync answered with, 0 before
    x_status,    \* GET /export, GET /export/calendar.ics: the status answered, 0 before
    x_body,      \* the document the export returned
    db_data,     \* Storage._data: calendars by id, events by uid
    db_disk,     \* the content of the data file
    db_used,     \* the calendar ids uuid4 has issued
    db_op,       \* the last Storage operation
    db_cal,      \* its calendar id
    db_in,       \* the events handed to save_events
    db_ret,      \* what the operation returned
    db_saved,    \* what its _save returned
    db_n,        \* the number of operations so far
    a_main,      \* where the main thread of AirbnBook is
    a_running,   \* AirbnBook.running
    a_thread,    \* where the sync thread is
    a_ticks,     \* the passes left in the waiting loop
    a_syncs,     \* the number of syncs begun
    r_sources,   \* the stored calendar sources
    r_op,        \* the last request on /api/sources
    r_status,    \* the status of its response
    r_n,         \* the number of requests so far
    u_pc,        \* where the double translation of a summary is
    u_impl,      \* the translator
    u_value,     \* the summary
    u_once,      \* the summary translated
    u_twice      \* the translation translated

mergeVars == <<m_pc, m_a, m_b, m_order, m_seen, m_out, m_raised>>
parseVars == <<p_pc, p_text, p_evts>>
keyVars == <<k_pc, k_evt, k_key>>
icalVars == <<i_pc, i_comps, i_events, i_count>>
storeVars == <<st_calendars, st_events, st_disk>>

idemVars == <<d_pc, d_x, d_self, d_empty, d_again>>

foldVars == <<c_pc, c_impl, c_text, c_folded, c_back, c_plain>>

transVars == <<t_pc, t_text, t_out>>

syncVars == <<s_pc, s_calendars, s_i, s_retries, s_results, s_requests>>

fusionVars == <<g_pc, g_urls, g_task, g_text, g_requests, g_merged, g_file, g_response>>

exportVars == <<x_status, x_body>>

dbVars == <<db_data, db_disk, db_used, db_op, db_cal, db_in, db_ret, db_saved, db_n>>

appVars == <<a_main, a_running, a_thread, a_ticks, a_syncs>>

srcVars == <<r_sources, r_op, r_status, r_n>>

sumVars == <<u_pc, u_impl, u_value, u_once, u_twice>>

vars == <<mergeVars, parseVars, keyVars, icalVars, storeVars, idemVars, foldVars, transVars, syncVars, fusionVars, exportVars, dbVars, appVars, srcVars, sumVars>>

(***************************************************************************)
(* Bounds                                                                  *)
(***************************************************************************)
MaxBlocks == 3      \* blocks (events or fragments) of the two merged sources together
MaxLines == 4       \* lines of a text given to parse_events
MaxProps == 3       \* property lines of an event given to key_for
MaxComps == 2       \* VEVENT components of a downloaded calendar
MaxTail == 3        \* characters after the run of letters of a line to fold
MaxWords == 2       \* atoms of a free SUMMARY value
MaxCals == 2        \* calendars given to sync_all_calendars

(***************************************************************************)
(* Strings                                                                 *)
(***************************************************************************)
NL == "\n"

IsSpace(a) == a \in {" ", "\t"}

RECURSIVE lstrip(_)
lstrip(s) == IF s # <<>> /\ IsSpace(Head(s)) THEN lstrip(Tail(s)) ELSE s

RECURSIVE rstrip(_)
rstrip(s) == IF s # <<>> /\ IsSpace(s[Len(s)]) THEN rstrip(SubSeq(s, 1, Len(s) - 1)) ELSE s

strip(s) == rstrip(lstrip(s))

RECURSIVE rstrip_cr(_)
rstrip_cr(s) == IF s # <<>> /\ s[Len(s)] = "\r" THEN rstrip_cr(SubSeq(s, 1, Len(s) - 1)) ELSE s

upper_atom(a) ==
    CASE a = "begin" -> "BEGIN"
      [] a = "end" -> "END"
      [] a = "vevent" -> "VEVENT"
      [] a = "uid" -> "UID"
      [] a = "Uid" -> "UID"
      [] a = "summary" -> "SUMMARY"
      [] a = "Summary" -> "SUMMARY"
      [] OTHER -> a

upper(s) == [i \in 1..Len(s) |-> upper_atom(s[i])]

RECURSIVE join(_)
join(strs) ==
    IF strs = <<>> THEN <<>>
    ELSE IF Len(strs) = 1 THEN strs[1]
    ELSE strs[1] \o <<NL>> \o join(Tail(strs))

\* str.splitlines() from position `from` on, where a line starts: the line
\* ends before the next "\n"
RECURSIVE splitlines_at(_, _)
splitlines_at(s, from) ==
    IF from > Len(s) THEN <<>>
    ELSE LET nls == {j \in from..Len(s) : s[j] = NL}
         IN  IF nls = {} THEN <<SubSeq(s, from, Len(s))>>
             ELSE LET j == CHOOSE x \in nls : \A y \in nls : x <= y
                  IN  <<SubSeq(s, from, j - 1)>> \o splitlines_at(s, j + 1)

splitlines(s) == splitlines_at(s, 1)

\* a value that is either None or a string
None == [isNone |-> TRUE, s |-> <<>>]
Str(s) == [isNone |-> FALSE, s |-> s]

BEGIN_VEVENT == <<"BEGIN", ":", "VEVENT">>
END_VEVENT == <<"END", ":", "VEVENT">>

(***************************************************************************)
(* parse_events (fusion_service.py)                                        *)
(***************************************************************************)
parse_line(st, raw) ==
    LET line == rstrip_cr(raw)
        u == upper(strip(line))
    IN  IF u = BEGIN_VEVENT
        THEN [evts |-> st.evts, cur |-> <<BEGIN_VEVENT>>, inside |-> TRUE]
        ELSE IF u = END_VEVENT
        THEN LET c == Append(st.cur, END_VEVENT)
             IN  [evts |-> Append(st.evts, join(c)), cur |-> c, inside |-> FALSE]
        ELSE IF st.inside
        THEN [evts |-> st.evts, cur |-> Append(st.cur, line), inside |-> TRUE]
        ELSE st

RECURSIVE parse_loop(_, _)
parse_loop(st, lines) ==
    IF lines = <<>> THEN st ELSE parse_loop(parse_line(st, Head(lines)), Tail(lines))

\* variant: the block still open at the end of the input is emitted as well
parse_events_flush(ics_text) ==
    LET st == parse_loop([evts |-> <<>>, cur |-> <<>>, inside |-> FALSE], splitlines(ics_text))
    IN  IF st.inside THEN Append(st.evts, join(st.cur)) ELSE st.evts

parse_events(ics_text) ==
    parse_loop([evts |-> <<>>, cur |-> <<>>, inside |-> FALSE], splitlines(ics_text)).evts

(***************************************************************************)
(* key_for (fusion_service.py)                                             *)
(***************************************************************************)
MinOf(S) == CHOOSE x \in S : \A y \in S : x <= y

LineStarts(s) == {p \in 1..Len(s) : p = 1 \/ s[p - 1] = NL}

\* index after the last atom of the line that holds position p
LineEnd(s, p) == MinOf({q \in p..(Len(s) + 1) : q = Len(s) + 1 \/ s[q] = NL})

\* re.search(r"^NAME:(.+)$", evt, re.MULTILINE): <<>> for no match, else <<group(1)>>
search_prop(name, evt) ==
    LET M == {p \in LineStarts(evt) :
                 /\ p + 2 <= Len(evt)
                 /\ evt[p] = name
                 /\ evt[p + 1] = ":"
                 /\ evt[p + 2] # NL}
    IN  IF M = {} THEN <<>>
        ELSE LET p == MinOf(M) IN <<SubSeq(evt, p + 2, LineEnd(evt, p + 2) - 1)>>

\* re.search(r"^DTSTART[^:]*:(.+)$", evt, re.MULTILINE); [^:] also matches "\n"
search_dtstart(evt) ==
    LET Colon(p) == {c \in (p + 1)..Len(evt) : evt[c] = ":"}
        M == {p \in LineStarts(evt) :
                 /\ evt[p] = "DTSTART"
                 /\ Colon(p) # {}
                 /\ MinOf(Colon(p)) + 1 <= Len(evt)
                 /\ evt[MinOf(Colon(p)) + 1] # NL}
    IN  IF M = {} THEN <<>>
        ELSE LET c == MinOf(Colon(MinOf(M)))
             IN  <<SubSeq(evt, c + 1, LineEnd(evt, c + 1) - 1)>>

key_for(evt) ==
    LET uid == search_prop("UID", evt)
        dt == search_dtstart(evt)
        sm == search_prop("SUMMARY", evt)
    IN  IF uid # <<>>
        THEN <<"UID", ":", ":">> \o strip(uid[1])
        ELSE <<"DS", ":", ":">> \o (IF dt # <<>> THEN strip(dt[1]) ELSE <<>>)
                 \o <<":", ":", "SM", ":", ":">>
                 \o (IF sm # <<>> THEN strip(sm[1]) ELSE <<>>)

(***************************************************************************)
(* merge_ics (fusion_service.py)                                           *)
(***************************************************************************)
header == << <<"BEGIN", ":", "VCALENDAR">>,
             <<"VERSION", ":", "2.0">>,
             <<"PRODID", ":", "-//AirBnBook Fusion//ICS//FR">>,
             <<"CALSCALE", ":", "GREGORIAN">> >>

footer == << <<"END", ":", "VCALENDAR">> >>

\* variant: the argument is used as it is, without `or ""`
or_empty_missing(x) == x

\* x or "": None and the empty string both give the empty string
or_empty(x) == IF x.isNone \/ x.s = <<>> THEN Str(<<>>) ELSE x

\* variant: an event is only dropped when the same text was already recorded
seen_put_by_text(seen, origin, evt) ==
    LET k == key_for(evt)
        item == [k |-> k, origin |-> origin, evt |-> evt]
    IN  IF \E i \in DOMAIN seen : seen[i].evt = evt THEN seen ELSE Append(seen, item)

\* variant: the first event seen for a key always stays
seen_put_first_wins(seen, origin, evt) ==
    LET k == key_for(evt)
        item == [k |-> k, origin |-> origin, evt |-> evt]
    IN  IF \E i \in DOMAIN seen : seen[i].k = k THEN seen ELSE Append(seen, item)

\* variant: a replaced key is removed and inserted again at the end
seen_put_moves(seen, origin, evt) ==
    LET k == key_for(evt)
        at == {i \in DOMAIN seen : seen[i].k = k}
        item == [k |-> k, origin |-> origin, evt |-> evt]
    IN  IF at = {} THEN Append(seen, item)
        ELSE LET i == CHOOSE j \in at : TRUE
             IN  IF seen[i].origin # "A" /\ origin = "A"
                 THEN Append(SubSeq(seen, 1, i - 1) \o SubSeq(seen, i + 1, Len(seen)), item)
                 ELSE seen

\* variant: `seen` is a list, every event of every source is appended
seen_put_always(seen, origin, evt) ==
    Append(seen, [k |-> key_for(evt), origin |-> origin, evt |-> evt])

\* lines 62-66: `seen` is a dict, kept as the sequence of its items in insertion
\* order; assigning to a key that is present keeps the key's position
seen_put(seen, origin, evt) ==
    LET k == key_for(evt)
        at == {i \in DOMAIN seen : seen[i].k = k}
        item == [k |-> k, origin |-> origin, evt |-> evt]
    IN  IF at = {} THEN Append(seen, item)
        ELSE LET i == CHOOSE j \in at : TRUE
             IN  IF seen[i].origin # "A" /\ origin = "A"
                 THEN [seen EXCEPT ![i] = item]
                 ELSE seen

RECURSIVE merge_events(_, _, _)
merge_events(seen, origin, evts) ==
    IF evts = <<>> THEN seen
    ELSE merge_events(seen_put(seen, origin, Head(evts)), origin, Tail(evts))

\* lines 59-66 over the list of (src, origin); a src that is None raises at
\* ics_text.splitlines()
RECURSIVE merge_loop(_, _)
merge_loop(seen, sources) ==
    IF sources = <<>> THEN [raised |-> FALSE, seen |-> seen]
    ELSE LET src == Head(sources).src
             origin == Head(sources).origin
         IN  IF src.isNone THEN [raised |-> TRUE, seen |-> seen]
             ELSE merge_loop(merge_events(seen, origin, parse_events(src.s)), Tail(sources))

\* line 60: the list the loop iterates over
source_list(airbnb_ics, booking_ics) ==
    << [src |-> or_empty(airbnb_ics), origin |-> "A"],
       [src |-> or_empty(booking_ics), origin |-> "B"] >>

\* lines 67-69
render(seen) ==
    LET body == [i \in DOMAIN seen |-> seen[i].evt]
    IN  join(header \o body \o footer) \o <<NL>>

\* the list of line 60 in the scanning order `order`
in_order(sources, order) ==
    [i \in DOMAIN order |->
        sources[CHOOSE j \in DOMAIN sources : sources[j].origin = order[i]]]

CodeOrder == <<"A", "B">>

(***************************************************************************)
(* Inputs                                                                  *)
(***************************************************************************)
L_UID1 == <<"UID", ":", "1">>
L_UID2 == <<"UID", ":", "2">>
L_DT == <<"DTSTART", ":", "20240101">>
L_SUM_R == <<"SUMMARY", ":", "Reserved">>
L_SUM_C == <<"SUMMARY", ":", "Closed">>

RECURSIVE flatten(_)
flatten(ss) == IF ss = <<>> THEN <<>> ELSE Head(ss) \o flatten(Tail(ss))

SeqsUpTo(S, n) == UNION {[1..m -> S] : m \in 0..n}

\* blocks of lines a merged source is made of: events with a UID, events
\* without, an event without any property, a stray END:VEVENT and a
\* BEGIN:VEVENT that is not closed
Blocks ==
    { <<BEGIN_VEVENT, L_UID1, L_SUM_R, END_VEVENT>>,
      <<BEGIN_VEVENT, L_UID1, L_SUM_C, END_VEVENT>>,
      <<BEGIN_VEVENT, L_UID2, END_VEVENT>>,
      <<BEGIN_VEVENT, L_DT, L_SUM_R, END_VEVENT>>,
      <<BEGIN_VEVENT, END_VEVENT>>,
      <<END_VEVENT>>,
      <<BEGIN_VEVENT, L_UID2>> }

\* the pairs of block sequences of at most MaxBlocks blocks together
BlockSeqPairs ==
    UNION {[1..n -> Blocks] \X [1..h -> Blocks] : <<n, h>> \in
              {x \in (0..MaxBlocks) \X (0..MaxBlocks) : x[1] + x[2] <= MaxBlocks}}

\* the texts made of the blocks bs; no block: None or the empty string
TextsOf(bs) == IF bs = <<>> THEN {None, Str(<<>>)} ELSE {Str(join(flatten(bs)))}

ParseLines ==
    { BEGIN_VEVENT, <<" ", "begin", ":", "vevent">>, END_VEVENT,
      <<"end", ":", "vevent", " ">>, L_UID1, L_SUM_R }

ParseTexts == {join(ls) : ls \in SeqsUpTo(ParseLines, MaxLines)}

KeyLines ==
    { L_UID1, L_UID2, <<"uid", ":", "1">>, <<"UID", ":", " ">>, <<"UID", ":">>,
      <<"UID", ":", " ", "2", " ">>, L_DT,
      <<"DTSTART", ";", "TZID=Europe/Paris", ":", " ", "20240102">>,
      L_SUM_R, L_SUM_C }

KeyEvents == {join(<<BEGIN_VEVENT>> \o ps \o <<END_VEVENT>>) : ps \in SeqsUpTo(KeyLines, MaxProps)}

(***************************************************************************)
(* merge_ics as a state machine                                            *)
(***************************************************************************)
MergeIdle ==
    /\ m_pc = "idle" /\ m_a = None /\ m_b = None /\ m_order = CodeOrder
    /\ m_seen = <<>> /\ m_out = <<>> /\ m_raised = FALSE

ParseIdle == p_pc = "idle" /\ p_text = <<>> /\ p_evts = <<>>

KeyIdle == k_pc = "idle" /\ k_evt = <<>> /\ k_key = <<>>

EmptyData == [calendars |-> <<>>, events |-> <<>>]

\* no operation has returned yet
NoReturn == [calendar |-> "", count |-> 0, deleted |-> FALSE]

IcalIdle ==
    /\ i_pc = "idle" /\ i_comps = <<>> /\ i_events = <<>> /\ i_count = 0
    /\ st_calendars = <<>> /\ st_events = <<>> /\ st_disk = EmptyData

IdemIdle ==
    /\ d_pc = "idle" /\ d_x = None /\ d_self = <<>> /\ d_empty = <<>> /\ d_again = <<>>

FoldIdle ==
    /\ c_pc = "idle" /\ c_impl = "" /\ c_text = <<>>
    /\ c_folded = <<>> /\ c_back = <<>> /\ c_plain = <<>>

TransIdle ==
    /\ t_pc = "idle" /\ t_text = <<>> /\ t_out = <<>>

SyncIdle ==
    /\ s_pc = "idle" /\ s_calendars = <<>> /\ s_i = 0 /\ s_retries = 0
    /\ s_results = <<>> /\ s_requests = <<>>

FusionIdle ==
    /\ g_pc = "idle" /\ g_urls = <<>> /\ g_task = <<>> /\ g_text = <<>>
    /\ g_requests = <<>> /\ g_merged = None /\ g_file = None /\ g_response = 0

ExportIdle ==
    /\ x_status = 0 /\ x_body = <<>>

StorageIdle ==
    /\ db_data = EmptyData /\ db_disk = EmptyData /\ db_used = {} /\ db_op = "none"
    /\ db_cal = "" /\ db_in = <<>> /\ db_ret = NoReturn /\ db_saved = TRUE /\ db_n = 0

AppIdle ==
    /\ a_main = "init" /\ a_running = FALSE /\ a_thread = "none" /\ a_ticks = 0 /\ a_syncs = 0

SourcesIdle ==
    /\ r_sources = <<>> /\ r_op = "none" /\ r_status = 0 /\ r_n = 0

SummaryIdle ==
    /\ u_pc = "idle" /\ u_impl = "" /\ u_value = <<>> /\ u_once = <<>> /\ u_twice = <<>>

MergeInit(orders) ==
    /\ m_pc = "call"
    /\ \E bs \in BlockSeqPairs : m_a \in TextsOf(bs[1]) /\ m_b \in TextsOf(bs[2])
    /\ m_order \in orders
    /\ m_seen = <<>> /\ m_out = <<>> /\ m_raised = FALSE

merge_ics ==
    /\ m_pc = "call"
    /\ LET r == merge_loop(<<>>, in_order(source_list(m_a, m_b), m_order))
       IN  /\ m_raised' = r.raised
           /\ m_seen' = r.seen
           /\ m_out' = IF r.raised THEN <<>> ELSE render(r.seen)
    /\ m_pc' = "done"
    /\ UNCHANGED <<m_a, m_b, m_order, parseVars, keyVars, icalVars, storeVars, idemVars, foldVars, transVars, syncVars, fusionVars, exportVars, dbVars, appVars, srcVars, sumVars>>

\* the program: the list of line 60 is scanned A first, then B
Init == MergeInit({CodeOrder}) /\ ParseIdle /\ KeyIdle /\ IcalIdle /\ IdemIdle /\ FoldIdle /\ TransIdle /\ SyncIdle /\ FusionIdle /\ ExportIdle /\ StorageIdle /\ AppIdle /\ SourcesIdle /\ SummaryIdle

Next == merge_ics

Spec == Init /\ [][Next]_vars

\* the loop of lines 60-66 over both scanning orders of the two sources
InitAnyOrder == MergeInit({<<"A", "B">>, <<"B", "A">>}) /\ ParseIdle /\ KeyIdle /\ IcalIdle /\ IdemIdle /\ FoldIdle /\ TransIdle /\ SyncIdle /\ FusionIdle /\ ExportIdle /\ StorageIdle /\ AppIdle /\ SourcesIdle /\ SummaryIdle

SpecAnyOrder == InitAnyOrder /\ [][Next]_vars

(***************************************************************************)
(* parse_events and key_for as state machines                              *)
(***************************************************************************)
ParseCall ==
    /\ p_pc = "call"
    /\ p_evts' = parse_events(p_text)
    /\ p_pc' = "done"
    /\ UNCHANGED <<p_text, mergeVars, keyVars, icalVars, storeVars, idemVars, foldVars, transVars, syncVars, fusionVars, exportVars, dbVars, appVars, srcVars, sumVars>>

InitParse ==
    /\ p_pc = "call" /\ p_text \in ParseTexts /\ p_evts = <<>>
    /\ MergeIdle /\ KeyIdle /\ IcalIdle /\ IdemIdle /\ FoldIdle /\ TransIdle /\ SyncIdle /\ FusionIdle /\ ExportIdle /\ StorageIdle /\ AppIdle /\ SourcesIdle /\ SummaryIdle

NextParse == ParseCall

SpecParse == InitParse /\ [][NextParse]_vars

KeyCall ==
    /\ k_pc = "call"
    /\ k_key' = key_for(k_evt)
    /\ k_pc' = "done"
    /\ UNCHANGED <<k_evt, mergeVars, parseVars, icalVars, storeVars, idemVars, foldVars, transVars, syncVars, fusionVars, exportVars, dbVars, appVars, srcVars, sumVars>>

InitKey ==
    /\ k_pc = "call" /\ k_evt \in KeyEvents /\ k_key = <<>>
    /\ MergeIdle /\ ParseIdle /\ IcalIdle /\ IdemIdle /\ FoldIdle /\ TransIdle /\ SyncIdle /\ FusionIdle /\ ExportIdle /\ StorageIdle /\ AppIdle /\ SourcesIdle /\ SummaryIdle

NextKey == KeyCall

SpecKey == InitKey /\ [][NextKey]_vars

(***************************************************************************)
(* parse_ical (src/ical_parser.py) and Storage (src/storage.py)            *)
(*                                                                         *)
(* A VEVENT component is the record of its properties as the icalendar     *)
(* library hands them over: each of uid, dtstart, summary is None or a     *)
(* string.                                                                 *)
(***************************************************************************)
\* safe_get: the default for a missing property, else the trimmed value
safe_get(component, key, default) ==
    IF component[key].isNone THEN default ELSE strip(component[key].s)

\* parse_datetime: None for a missing property, else its date
parse_datetime(component, key) == component[key]

\* parse_event: None (dropped) without UID or without DTSTART
parse_event(component, calendar_id) ==
    LET uid == safe_get(component, "uid", <<>>)
        start == parse_datetime(component, "dtstart")
    IN  IF uid = <<>> THEN <<>>
        ELSE IF start.isNone THEN <<>>
        ELSE << [uid |-> uid,
                 summary |-> safe_get(component, "summary", <<"Sans titre">>),
                 start |-> start.s,
                 calendar_id |-> calendar_id] >>

\* parse_ical, lines 86-100: the events of the components that parse_event keeps
RECURSIVE parse_ical(_, _)
parse_ical(components, calendar_id) ==
    IF components = <<>> THEN <<>>
    ELSE parse_event(Head(components), calendar_id) \o parse_ical(Tail(components), calendar_id)

\* save_events, lines 153-157: the new events are stored under their uid
RECURSIVE put_events(_, _, _)
put_events(stored, calendar_id, events) ==
    IF events = <<>> THEN stored
    ELSE LET event == Head(events)
             next == IF event.uid # <<>>
                     THEN [u \in DOMAIN stored \cup {event.uid} |->
                              IF u = event.uid
                              THEN [event EXCEPT !.calendar_id = calendar_id]
                              ELSE stored[u]]
                     ELSE stored
         IN  put_events(next, calendar_id, Tail(events))

\* save_events: the new data and the returned count
save_events(data, calendar_id, events) ==
    LET others == {u \in DOMAIN data.events : data.events[u].calendar_id # calendar_id}
        kept == [u \in others |-> data.events[u]]
        cals == IF calendar_id \in DOMAIN data.calendars
                THEN [data.calendars EXCEPT ![calendar_id].event_count = Len(events),
                                            ![calendar_id].last_sync = TRUE]
                ELSE data.calendars
    IN  [data |-> [calendars |-> cals, events |-> put_events(kept, calendar_id, events)],
         ret |-> Len(events)]

TheCalendar == "c1"

UidValues == {None, Str(<<"1">>), Str(<<"2">>), Str(<<" ">>)}
DtstartValues == {None, Str(<<"20240101">>)}
SummaryValues == {None, Str(<<"Reserved">>)}

Components == [uid : UidValues, dtstart : DtstartValues, summary : SummaryValues]

InitIcal ==
    /\ i_pc = "call"
    /\ i_comps \in SeqsUpTo(Components, MaxComps)
    /\ i_events = <<>>
    /\ i_count = 0
    /\ st_calendars = [c \in {TheCalendar} |-> [id |-> c, last_sync |-> FALSE, event_count |-> 0]]
    /\ st_events = <<>>
    /\ st_disk = [calendars |-> st_calendars, events |-> st_events]
    /\ MergeIdle /\ ParseIdle /\ KeyIdle /\ IdemIdle /\ FoldIdle /\ TransIdle /\ SyncIdle /\ FusionIdle /\ ExportIdle /\ StorageIdle /\ AppIdle /\ SourcesIdle /\ SummaryIdle

\* sync_calendar, lines 155-159: the downloaded calendar is parsed and counted
SyncCalendar ==
    /\ i_pc = "call"
    /\ i_events' = parse_ical(i_comps, TheCalendar)
    /\ i_count' = Len(i_events')
    /\ i_pc' = "parsed"
    /\ UNCHANGED <<i_comps, storeVars, mergeVars, parseVars, keyVars, idemVars, foldVars, transVars, syncVars, fusionVars, exportVars, dbVars, appVars, srcVars, sumVars>>

\* Storage.save_events with the parsed events; _save may fail with an IOError,
\* which leaves the file as it was
SaveEvents ==
    /\ i_pc = "parsed"
    /\ LET r == save_events([calendars |-> st_calendars, events |-> st_events],
                            TheCalendar, i_events)
       IN  /\ st_calendars' = r.data.calendars
           /\ st_events' = r.data.events
           /\ i_count' = r.ret
           /\ \E io_ok \in BOOLEAN : st_disk' = IF io_ok THEN r.data ELSE st_disk
    /\ i_pc' = "saved"
    /\ UNCHANGED <<i_comps, i_events, mergeVars, parseVars, keyVars, idemVars, foldVars, transVars, syncVars, fusionVars, exportVars, dbVars, appVars, srcVars, sumVars>>

NextIcal == SyncCalendar \/ SaveEvents

SpecIcal == InitIcal /\ [][NextIcal]_vars

(***************************************************************************)
(* Properties of merge_ics                                                 *)
(***************************************************************************)
EvA == parse_events(or_empty(m_a).s)
EvB == parse_events(or_empty(m_b).s)

\* the events of both inputs, in the order the loop meets them
Scanned == IF m_order[1] = "A" THEN EvA \o EvB ELSE EvB \o EvA

Body == [i \in DOMAIN m_seen |-> m_seen[i].evt]

KeySeq(evts) == [i \in DOMAIN evts |-> key_for(evts[i])]

KeySet(evts) == {key_for(evts[i]) : i \in DOMAIN evts}

FirstWithKey(evts, k) == evts[MinOf({i \in DOMAIN evts : key_for(evts[i]) = k})]

RECURSIVE FirstSeen(_, _)
FirstSeen(ks, acc) ==
    IF ks = <<>> THEN acc
    ELSE FirstSeen(Tail(ks),
                   IF \E i \in DOMAIN acc : acc[i] = Head(ks) THEN acc ELSE Append(acc, Head(ks)))

\* C1: the merged document holds at most one event per dedup key: the emitted
\* events have pairwise different keys and there are as many of them as there
\* are distinct keys among the events parsed from the two inputs.
C1_OneEventPerKey ==
    m_pc = "done" =>
        /\ \A i, j \in DOMAIN Body : i # j => key_for(Body[i]) # key_for(Body[j])
        /\ Len(Body) = Cardinality(KeySet(EvA \o EvB))
        /\ m_out = join(header \o Body \o footer) \o <<NL>>

\* two events without UID, same DTSTART and SUMMARY, one per source: one survives
C1_Witness ==
    /\ m_pc = "done"
    /\ \E i \in DOMAIN EvA : \E j \in DOMAIN EvB :
          /\ search_prop("UID", EvA[i]) = <<>>
          /\ search_dtstart(EvA[i]) # <<>>
          /\ key_for(EvA[i]) = key_for(EvB[j])
    /\ Len(EvA) + Len(EvB) > Len(Body)

WinnerFor(k) == IF k \in KeySet(EvA) THEN FirstWithKey(EvA, k) ELSE FirstWithKey(EvB, k)

\* C3: the surviving events are emitted in the order in which their keys were
\* first seen while scanning the sources; a replacement by a primary-origin
\* event keeps the key's position.
C3_FirstSeenOrder ==
    m_pc = "done" =>
        LET ks == FirstSeen(KeySeq(Scanned), <<>>)
        IN  m_out = join(header \o [i \in DOMAIN ks |-> WinnerFor(ks[i])] \o footer) \o <<NL>>

\* B is scanned first, its first event is replaced by A's, another key follows
C3_Witness ==
    /\ m_pc = "done"
    /\ m_order = <<"B", "A">>
    /\ Len(Body) >= 2
    /\ key_for(Body[1]) \in KeySet(EvA) \cap KeySet(EvB)
    /\ Body[1] # FirstWithKey(EvB, key_for(Body[1]))

IsBegin(line) == upper(strip(line)) = BEGIN_VEVENT
IsEnd(line) == upper(strip(line)) = END_VEVENT

\* every BEGIN:VEVENT of lines is closed by one later END:VEVENT, no END:VEVENT
\* is unmatched, no BEGIN:VEVENT is nested
RECURSIVE Bracketed(_, _)
Bracketed(lines, open) ==
    IF lines = <<>> THEN ~open
    ELSE IF IsBegin(Head(lines)) THEN ~open /\ Bracketed(Tail(lines), TRUE)
    ELSE IF IsEnd(Head(lines)) THEN open /\ Bracketed(Tail(lines), FALSE)
    ELSE Bracketed(Tail(lines), open)

\* C4: the output of merge_ics starts with the four header lines, ends with
\* END:VCALENDAR and a newline, and its VEVENT brackets in between are balanced.
C4_CompleteDocument ==
    m_pc = "done" =>
        LET ls == splitlines(m_out)
            n == Len(ls)
        IN  /\ ~m_raised
            /\ n >= 5
            /\ SubSeq(ls, 1, 4) = header
            /\ ls[n] = footer[1]
            /\ m_out[Len(m_out)] = NL
            /\ Bracketed(SubSeq(ls, 5, n - 1), FALSE)

\* some body event of the output, keyed k, is one of the events of evts
SameWinners(evts) ==
    /\ KeySet(Body) = KeySet(evts)
    /\ \A i \in DOMAIN Body : Body[i] = FirstWithKey(evts, key_for(Body[i]))

PLines == splitlines(p_text)

BeginIdx == {i \in DOMAIN PLines : IsBegin(PLines[i])}
EndIdx == {i \in DOMAIN PLines : IsEnd(PLines[i])}

MaxOf(S) == CHOOSE x \in S : \A y \in S : y <= x

\* the last BEGIN:VEVENT of the input has no END:VEVENT after it
Unterminated == BeginIdx # {} /\ \A e \in EndIdx : e < MaxOf(BeginIdx)

\* C5: every event returned by parse_events has BEGIN:VEVENT as its first line
\* and END:VEVENT as its last line, and the input yields at most one event per
\* BEGIN:VEVENT...END:VEVENT block.
C5_EventShape ==
    p_pc = "done" =>
        /\ \A i \in DOMAIN p_evts :
              LET ls == splitlines(p_evts[i])
              IN  Len(ls) >= 2 /\ ls[1] = BEGIN_VEVENT /\ ls[Len(ls)] = END_VEVENT
        /\ Len(p_evts) <= Cardinality(BeginIdx)

\* C6: a BEGIN:VEVENT that no END:VEVENT follows produces no event: the result
\* is the result for the text that precedes that BEGIN:VEVENT, and no line of
\* the open block is part of a returned event.
C6_UnterminatedDropped ==
    (p_pc = "done" /\ Unterminated) =>
        LET b == MaxOf(BeginIdx)
            before == SubSeq(PLines, 1, b - 1)
        IN  /\ p_evts = parse_events(join(before))
            /\ Len(p_evts) <= Cardinality({e \in EndIdx : e < b})
            /\ \A i \in DOMAIN p_evts :
                  \A l \in DOMAIN splitlines(p_evts[i]) :
                      \E h \in 1..(b - 1) :
                          splitlines(p_evts[i])[l] \in {PLines[h], upper(strip(PLines[h]))}

\* a complete block followed by a block that is never closed: one event
C6_Witness ==
    /\ p_pc = "done"
    /\ Unterminated
    /\ Cardinality(BeginIdx) = 2 /\ Cardinality(EndIdx) = 1
    /\ MinOf(BeginIdx) < MinOf(EndIdx)
    /\ MaxOf(BeginIdx) < Len(PLines)
    /\ Len(p_evts) = 1
    /\ splitlines(p_evts[1])[1] = BEGIN_VEVENT

(***************************************************************************)
(* Properties of key_for                                                   *)
(***************************************************************************)
KLines == splitlines(k_evt)

\* the lines whose property name is `name`, in any letter case
PropIdx(name) ==
    {i \in DOMAIN KLines :
        Len(KLines[i]) >= 2 /\ upper_atom(KLines[i][1]) = name /\ KLines[i][2] \in {":", ";"}}

\* the trimmed value of a property line: what follows its first ":"
ValueOf(line) ==
    LET c == MinOf({i \in DOMAIN line : line[i] = ":"})
    IN  strip(SubSeq(line, c + 1, Len(line)))

HasValue(line) == (\E i \in DOMAIN line : line[i] = ":") /\ ValueOf(line) # <<>>

FirstValue(name) ==
    IF PropIdx(name) = {} THEN <<>> ELSE
    IF \E i \in DOMAIN KLines[MinOf(PropIdx(name))] : KLines[MinOf(PropIdx(name))][i] = ":"
    THEN ValueOf(KLines[MinOf(PropIdx(name))]) ELSE <<>>

\* C7: for an event with a UID line, in any letter case, key_for returns
\* "UID::" followed by the trimmed value of the first such line, whatever the
\* DTSTART and SUMMARY lines are.
C7_UidKey ==
    (k_pc = "done" /\ PropIdx("UID") # {} /\ HasValue(KLines[MinOf(PropIdx("UID"))])) =>
        k_key = <<"UID", ":", ":">> \o FirstValue("UID")

\* C8: for an event whose UID is absent or empty (also empty after trimming),
\* key_for returns "DS::<dtstart>::SM::<summary>" from the trimmed values of
\* the first DTSTART and SUMMARY lines, never a UID key with an empty uid.
C8_FallbackKey ==
    (k_pc = "done" /\ \A i \in PropIdx("UID") : ~HasValue(KLines[i])) =>
        /\ k_key = <<"DS", ":", ":">> \o FirstValue("DTSTART")
                      \o <<":", ":", "SM", ":", ":">> \o FirstValue("SUMMARY")
        /\ k_key # <<"UID", ":", ":">>

(***************************************************************************)
(* Properties of the calendar sync and the storage                         *)
(***************************************************************************)
\* the components without UID, DTSTART and SUMMARY
BareIdx ==
    {i \in DOMAIN i_comps :
        i_comps[i].uid.isNone /\ i_comps[i].dtstart.isNone /\ i_comps[i].summary.isNone}

StoredOf(calendar_id) == {u \in DOMAIN st_events : st_events[u].calendar_id = calendar_id}

\* C9: a VEVENT without UID, DTSTART and SUMMARY is never dropped: it is part
\* of the parsed and of the stored events, and the reported count is the number
\* of events kept.
C9_BareEventKept ==
    /\ (i_pc \in {"parsed", "saved"} /\ BareIdx # {}) =>
          /\ Len(i_events) >= 1
          /\ i_count >= 1
    /\ (i_pc = "saved" /\ BareIdx # {}) =>
          /\ StoredOf(TheCalendar) # {}
          /\ i_count = Cardinality(StoredOf(TheCalendar))


(***************************************************************************)
(* merge_ics applied to its own output                                     *)
(***************************************************************************)
\* lines 51-69 as a function: the returned text
merged(airbnb_ics, booking_ics) ==
    render(merge_loop(<<>>, source_list(airbnb_ics, booking_ics)).seen)

\* the source texts X: at most MaxBlocks blocks, None or the empty string
IdemTexts == UNION {TextsOf(bs) : bs \in SeqsUpTo(Blocks, MaxBlocks)}

InitIdem ==
    /\ d_pc = "self" /\ d_x \in IdemTexts
    /\ d_self = <<>> /\ d_empty = <<>> /\ d_again = <<>>
    /\ MergeIdle /\ ParseIdle /\ KeyIdle /\ IcalIdle /\ FoldIdle /\ TransIdle /\ SyncIdle /\ FusionIdle /\ ExportIdle /\ StorageIdle /\ AppIdle /\ SourcesIdle /\ SummaryIdle

\* merge_ics(X, X)
MergeSelf ==
    /\ d_pc = "self"
    /\ d_self' = merged(d_x, d_x)
    /\ d_pc' = "empty"
    /\ UNCHANGED <<d_x, d_empty, d_again, mergeVars, parseVars, keyVars, icalVars, storeVars, foldVars, transVars, syncVars, fusionVars, exportVars, dbVars, appVars, srcVars, sumVars>>

\* merge_ics(X, "")
MergeEmpty ==
    /\ d_pc = "empty"
    /\ d_empty' = merged(d_x, Str(<<>>))
    /\ d_pc' = "again"
    /\ UNCHANGED <<d_x, d_self, d_again, mergeVars, parseVars, keyVars, icalVars, storeVars, foldVars, transVars, syncVars, fusionVars, exportVars, dbVars, appVars, srcVars, sumVars>>

\* merge_ics(out, "") on the text the first call returned
MergeAgain ==
    /\ d_pc = "again"
    /\ d_again' = merged(Str(d_self), Str(<<>>))
    /\ d_pc' = "done"
    /\ UNCHANGED <<d_x, d_self, d_empty, mergeVars, parseVars, keyVars, icalVars, storeVars, foldVars, transVars, syncVars, fusionVars, exportVars, dbVars, appVars, srcVars, sumVars>>

NextIdem == MergeSelf \/ MergeEmpty \/ MergeAgain

SpecIdem == InitIdem /\ [][NextIdem]_vars

\* C11: merging a source with itself gives the same events as merging it with
\* an empty source, and merging that output again with an empty source gives
\* the same events in the same order
C11_Idempotent ==
    d_pc = "done" =>
        /\ parse_events(d_self) = parse_events(d_empty)
        /\ parse_events(d_again) = parse_events(d_self)

\* a source with two events of one key and an event of another key was merged
\* twice
C11_Witness ==
    /\ d_pc = "done"
    /\ Len(parse_events(d_again)) >= 2
    /\ Len(parse_events(d_x.s)) > Len(parse_events(d_again))


(***************************************************************************)
(* unfold and fold (convert_fr_service.py and src/utils.py)                *)
(* Here an atom is one character; "é" is a character of two UTF-8 bytes.   *)
(***************************************************************************)
\* str.encode("utf-8") of one character: its bytes
utf8(c) == IF c = "é" THEN <<"C3", "A9">> ELSE <<c>>

\* str.encode("utf-8"): the bytes of the characters, one half of the string
\* after the other
RECURSIVE encode(_)
encode(s) ==
    IF s = <<>> THEN <<>>
    ELSE IF Len(s) = 1 THEN utf8(s[1])
    ELSE LET h == Len(s) \div 2
         IN  encode(SubSeq(s, 1, h)) \o encode(SubSeq(s, h + 1, Len(s)))

\* bytes.decode("utf-8", errors="ignore"): a complete sequence gives its
\* character at the place of its first byte; a first byte without its second
\* byte and a second byte give nothing
decode_ignore(raw) ==
    LET starts == SelectSeq([i \in 1..Len(raw) |-> i],
                            LAMBDA i : /\ raw[i] # "A9"
                                       /\ raw[i] = "C3" => (i < Len(raw) /\ raw[i + 1] = "A9"))
    IN  [k \in 1..Len(starts) |-> IF raw[starts[k]] = "C3" THEN "é" ELSE raw[starts[k]]]

Min(a, b) == IF a < b THEN a ELSE b

\* convert_fr_service.py lines 22-32: the loop over the physical lines
RECURSIVE unfold_loop(_, _)
unfold_loop(out, lines) ==
    IF lines = <<>> THEN out
    ELSE LET line == Head(lines)
         IN  IF line # <<>> /\ Head(line) = " "
             THEN (IF out # <<>>
                   THEN unfold_loop([out EXCEPT ![Len(out)] = @ \o Tail(line)], Tail(lines))
                   ELSE unfold_loop(out, Tail(lines)))
             ELSE unfold_loop(Append(out, line), Tail(lines))

unfold(ics) == join(unfold_loop(<<>>, splitlines(ics)))

\* convert_fr_service.py lines 42-50: the chunks of one line from byte start on
RECURSIVE fold_chunks(_, _, _)
fold_chunks(raw, start, limit) ==
    IF start >= Len(raw) THEN <<>>
    ELSE LET chunk == SubSeq(raw, start + 1, Min(start + limit, Len(raw)))
             text == decode_ignore(chunk)
         IN  <<(IF start = 0 THEN text ELSE <<" ">> \o text)>>
                 \o fold_chunks(raw, start + Len(chunk), limit)

\* convert_fr_service.py lines 37-50: the output lines of one input line
fold_line(line, limit) ==
    LET raw == encode(line)
    IN  IF Len(raw) <= limit THEN <<line>> ELSE fold_chunks(raw, 0, limit)

fold(ics, limit) ==
    LET lines == splitlines(ics)
    IN  join(flatten([i \in 1..Len(lines) |-> fold_line(lines[i], limit)]))

\* src/utils.py line 42: re.sub(r'\r?\n[ \t]', '', ics_content).  A match is a
\* "\n" followed by a space or a tab, with the "\r" before it if there is one;
\* the characters of the matches are removed
utils_unfold(ics_content) ==
    LET s == ics_content
        n == Len(s)
        nl(i) == i >= 1 /\ i < n /\ s[i] = NL /\ IsSpace(s[i + 1])
        gone(i) == \/ nl(i)
                   \/ nl(i - 1)
                   \/ s[i] = "\r" /\ nl(i + 1)
        kept == SelectSeq([i \in 1..n |-> i], LAMBDA i : ~gone(i))
    IN  [k \in 1..Len(kept) |-> s[kept[k]]]

\* str.split(';') from position `from` on, where a word starts
RECURSIVE split_semi_at(_, _)
split_semi_at(s, from) ==
    LET semis == {j \in from..Len(s) : s[j] = ";"}
    IN  IF semis = {} THEN <<SubSeq(s, from, Len(s))>>
        ELSE LET j == CHOOSE x \in semis : \A y \in semis : x <= y
             IN  <<SubSeq(s, from, j - 1)>> \o split_semi_at(s, j + 1)

split_semi(s) == split_semi_at(s, 1)

\* src/utils.py lines 63-70: the loop over words[1:]
RECURSIVE utils_fold_words(_, _, _)
utils_fold_words(current_line, words, line_length) ==
    IF words = <<>> THEN (IF current_line # <<>> THEN <<current_line>> ELSE <<>>)
    ELSE LET word == Head(words)
         IN  IF Len(current_line \o <<";">> \o word) <= line_length
             THEN utils_fold_words(current_line \o <<";">> \o word, Tail(words), line_length)
             ELSE <<current_line>> \o utils_fold_words(word, Tail(words), line_length)

\* src/utils.py lines 57-70: the output lines of one input line
utils_fold_line(line, line_length) ==
    IF Len(line) <= line_length THEN <<line>>
    ELSE LET words == split_semi(line)
         IN  utils_fold_words(Head(words), Tail(words), line_length)

utils_fold(ics_content, line_length) ==
    LET lines == splitlines(ics_content)
    IN  join(flatten([i \in 1..Len(lines) |-> utils_fold_line(lines[i], line_length)]))

\* the default of the parameters `limit` and `line_length`
DefaultLimit == 75

FoldImpls == {"convert_fr_service", "utils"}

fold_of(impl, ics) ==
    IF impl = "utils" THEN utils_fold(ics, DefaultLimit) ELSE fold(ics, DefaultLimit)

unfold_of(impl, ics) == IF impl = "utils" THEN utils_unfold(ics) ELSE unfold(ics)


\* n times the letter a
Pad(n) == [i \in 1..n |-> "a"]

\* the lengths of the run of letters a line to fold starts with: none, just
\* under one chunk, just under two chunks
PadLens == {0, DefaultLimit - 2, 2 * DefaultLimit - 2}

FoldChars == {"a", "é", ";", " "}

FoldLines == {Pad(k) \o t : k \in PadLens, t \in SeqsUpTo(FoldChars, MaxTail)}

\* one line, alone or followed by a continuation line
FoldTexts == {join(<<l>> \o r) : l \in FoldLines, r \in {<<>>, << <<" ", "a">> >>}}

InitFold ==
    /\ c_pc = "fold" /\ c_impl \in FoldImpls /\ c_text \in FoldTexts
    /\ c_folded = <<>> /\ c_back = <<>> /\ c_plain = <<>>
    /\ MergeIdle /\ ParseIdle /\ KeyIdle /\ IcalIdle /\ IdemIdle /\ TransIdle /\ SyncIdle /\ FusionIdle /\ ExportIdle /\ StorageIdle /\ AppIdle /\ SourcesIdle /\ SummaryIdle

\* fold(text)
Fold ==
    /\ c_pc = "fold"
    /\ c_folded' = fold_of(c_impl, c_text)
    /\ c_pc' = "back"
    /\ UNCHANGED <<c_impl, c_text, c_back, c_plain, mergeVars, parseVars, keyVars, icalVars, storeVars, idemVars, transVars, syncVars, fusionVars, exportVars, dbVars, appVars, srcVars, sumVars>>

\* unfold(fold(text))
UnfoldFolded ==
    /\ c_pc = "back"
    /\ c_back' = unfold_of(c_impl, c_folded)
    /\ c_pc' = "plain"
    /\ UNCHANGED <<c_impl, c_text, c_folded, c_plain, mergeVars, parseVars, keyVars, icalVars, storeVars, idemVars, transVars, syncVars, fusionVars, exportVars, dbVars, appVars, srcVars, sumVars>>

\* unfold(text)
Unfold ==
    /\ c_pc = "plain"
    /\ c_plain' = unfold_of(c_impl, c_text)
    /\ c_pc' = "done"
    /\ UNCHANGED <<c_impl, c_text, c_folded, c_back, mergeVars, parseVars, keyVars, icalVars, storeVars, idemVars, transVars, syncVars, fusionVars, exportVars, dbVars, appVars, srcVars, sumVars>>

NextFold == Fold \/ UnfoldFolded \/ Unfold

SpecFold == InitFold /\ [][NextFold]_vars

\* the physical lines unfold is given: plain lines, lines that begin with a
\* space, with a tab, with two blanks, and the empty line
UnfoldLines ==
    { <<"a">>, <<"b">>, <<" ", "a">>, <<"\t", "b">>, <<" ", " ", "a">>, <<>> }

UnfoldTexts == {join(ls) : ls \in SeqsUpTo(UnfoldLines, MaxLines)}

InitUnfold ==
    /\ c_pc = "plain" /\ c_impl \in FoldImpls /\ c_text \in UnfoldTexts
    /\ c_folded = <<>> /\ c_back = <<>> /\ c_plain = <<>>
    /\ MergeIdle /\ ParseIdle /\ KeyIdle /\ IcalIdle /\ IdemIdle /\ TransIdle /\ SyncIdle /\ FusionIdle /\ ExportIdle /\ StorageIdle /\ AppIdle /\ SourcesIdle /\ SummaryIdle

NextUnfold == Unfold

SpecUnfold == InitUnfold /\ [][NextUnfold]_vars

\* C12: unfolding a folded text gives the logical lines that unfolding the
\* text itself gives, whatever the byte lengths of the lines and also when a
\* character of several bytes sits at a cut position
C12_FoldRoundTrip ==
    c_pc = "done" => splitlines(c_back) = splitlines(c_plain)

\* the UTF-8 byte length of a line
ByteLen(line) == Len(encode(line))

\* C13: every physical line fold returns, continuation lines with their
\* leading space included, is at most DefaultLimit bytes long
C13_FoldedLineLength ==
    c_pc \in {"back", "plain", "done"} =>
        \A i \in DOMAIN splitlines(c_folded) : ByteLen(splitlines(c_folded)[i]) <= DefaultLimit

\* the logical lines of a list of physical lines: a line that begins with a
\* space or a tab is joined, without that character, to the logical line
\* before it and is dropped when there is none; any other line starts a new
\* logical line
RECURSIVE LogicalLines(_, _)
LogicalLines(out, lines) ==
    IF lines = <<>> THEN out
    ELSE LET line == Head(lines)
         IN  IF line # <<>> /\ IsSpace(Head(line))
             THEN (IF out # <<>>
                   THEN LogicalLines([out EXCEPT ![Len(out)] = @ \o Tail(line)], Tail(lines))
                   ELSE LogicalLines(out, Tail(lines)))
             ELSE LogicalLines(Append(out, line), Tail(lines))

\* C14: unfold returns the logical lines of its input: lines that begin with
\* one space or one tab are joined to the logical line before them without
\* that character, a leading continuation line is dropped
C14_UnfoldLogicalLines ==
    c_pc = "done" => splitlines(c_plain) = LogicalLines(<<>>, splitlines(c_text))


(***************************************************************************)
(* Translation of the SUMMARY lines (convert_fr_service.py)                *)
(* Here an atom is a word or one separator character.                      *)
(***************************************************************************)
lower_atom(a) ==
    CASE a \in {"Reserved", "RESERVED"} -> "reserved"
      [] a \in {"Airbnb", "AIRBNB"} -> "airbnb"
      [] a \in {"Closed", "CLOSED"} -> "closed"
      [] a \in {"Not", "NOT"} -> "not"
      [] a = "Available" -> "available"
      [] a = "John" -> "john"
      [] a = "Réservé" -> "réservé"
      [] a \in {"Booking", "BOOKING"} -> "booking"
      [] a = "Booked" -> "booked"
      [] a = "Confirmed" -> "confirmed"
      [] a = "Blocked" -> "blocked"
      [] a = "Unavailable" -> "unavailable"
      [] a = "Check" -> "check"
      [] a = "Date" -> "date"
      [] a = "Réservation" -> "réservation"
      [] OTHER -> a

lower(s) == [i \in 1..Len(s) |-> lower_atom(s[i])]

\* re.sub(r"\s+", " ", s): every run of blanks becomes one space
RECURSIVE collapse(_)
collapse(s) ==
    IF s = <<>> THEN <<>>
    ELSE IF IsSpace(Head(s)) THEN <<" ">> \o collapse(lstrip(s))
    ELSE <<Head(s)>> \o collapse(Tail(s))

\* lines 53-55
normalize(s) == lower(strip(collapse(s)))

AIRBNB_BLOCKED == <<"airbnb", " ", "(", "not", " ", "available", ")">>
RESERVED == <<"reserved">>
CLOSED_NA == <<"closed", " ", "-", " ", "not", " ", "available">>
FR_BLOCKED == <<"Airbnb", " ", "(", "Date", " ", "bloquée", ")">>
FR_AIRBNB == <<"Airbnb", " ", "(", "Réservation", ")">>
FR_BOOKING == <<"Booking", " ", "(", "Réservation", ")">>

\* lines 57-66
translate_summary(value) ==
    LET v == normalize(value)
    IN  IF v = AIRBNB_BLOCKED THEN FR_BLOCKED
        ELSE IF v = RESERVED THEN FR_AIRBNB
        ELSE IF v = CLOSED_NA THEN FR_BOOKING
        ELSE value

\* variant: every line is taken for a SUMMARY line
is_summary_any(line) == TRUE

\* line 73: up.startswith("SUMMARY:") or up.startswith("SUMMARY;")
is_summary(line) ==
    /\ Len(line) >= 2
    /\ upper_atom(line[1]) = "SUMMARY"
    /\ line[2] \in {":", ";"}

\* lines 72-80: one line of the loop
translate_line(line) ==
    IF is_summary(line)
    THEN LET colons == {i \in DOMAIN line : line[i] = ":"}
         IN  IF colons # {}
             THEN LET p == CHOOSE i \in colons : \A j \in colons : i <= j
                  IN  SubSeq(line, 1, p - 1) \o <<":">>
                          \o translate_summary(SubSeq(line, p + 1, Len(line)))
             ELSE line
    ELSE line

\* lines 68-82
translate_ics_summary_only(ics_unfolded) ==
    LET lines == splitlines(ics_unfolded)
    IN  join([i \in DOMAIN lines |-> translate_line(lines[i])])

\* the SUMMARY values: the phrases of translate_summary in several spellings,
\* phrases inside a longer value, and the free values of at most MaxWords atoms
SummaryTexts ==
    { <<"Reserved">>, <<"RESERVED">>, <<" ", "reserved", "\t", " ">>,
      <<"Airbnb", " ", "(", "Not", " ", "available", ")">>,
      <<"CLOSED", " ", "-", " ", "Not", "\t", " ", "Available">>,
      <<"Not", " ", "available">>, <<"Réservé">>,
      <<"Reserved", " ", "-", " ", "John">> }
    \cup SeqsUpTo({"Reserved", "reserved", " ", "John", ":"}, MaxWords)

\* what a line starts with: SUMMARY in several spellings and with a
\* parameter, and names that are not SUMMARY
LineHeads ==
    { <<"SUMMARY", ":">>, <<"summary", ":">>, <<"SUMMARY", ";", "LANGUAGE=en", ":">>,
      <<"DESCRIPTION", ":">>, <<"X-SUMMARY", ":">> }

TransLines ==
    {h \o v : h \in LineHeads, v \in SummaryTexts}
        \cup { <<"SUMMARY", ";", "LANGUAGE=en">>, <<"SUMMARY">> }

\* one such line, alone or inside an event
TransTexts ==
    {join(pre \o <<l>> \o post) : l \in TransLines,
        pre \in {<<>>, <<BEGIN_VEVENT>>},
        post \in {<<>>, <<L_SUM_R, END_VEVENT>>}}

InitTranslate ==
    /\ t_pc = "call" /\ t_text \in TransTexts /\ t_out = <<>>
    /\ MergeIdle /\ ParseIdle /\ KeyIdle /\ IcalIdle /\ IdemIdle /\ FoldIdle /\ SyncIdle /\ FusionIdle /\ ExportIdle /\ StorageIdle /\ AppIdle /\ SourcesIdle /\ SummaryIdle

Translate ==
    /\ t_pc = "call"
    /\ t_out' = translate_ics_summary_only(t_text)
    /\ t_pc' = "done"
    /\ UNCHANGED <<t_text, mergeVars, parseVars, keyVars, icalVars, storeVars, idemVars, foldVars, syncVars, fusionVars, exportVars, dbVars, appVars, srcVars, sumVars>>

NextTranslate == Translate

SpecTranslate == InitTranslate /\ [][NextTranslate]_vars

TIn == splitlines(t_text)
TOut == splitlines(t_out)

\* the property name of the line is SUMMARY, in any letter case
NamedSummary(line) ==
    /\ line # <<>>
    /\ upper_atom(line[1]) = "SUMMARY"
    /\ Len(line) >= 2 => line[2] \in {":", ";"}

HasColon(line) == \E i \in DOMAIN line : line[i] = ":"

FirstColon(line) == CHOOSE i \in DOMAIN line : line[i] = ":" /\ \A j \in 1..(i - 1) : line[j] # ":"

ValueAfterColon(line) == SubSeq(line, FirstColon(line) + 1, Len(line))

IsWord(a) == a \notin {" ", "\t", "-", "(", ")", ":", ";", "."}

\* the phrase en stands at position i of text, in any letter case, and is
\* not glued to a word before or after it
PhraseAt(text, i, en) ==
    LET e == i + Len(en) - 1
    IN  /\ e <= Len(text)
        /\ lower(SubSeq(text, i, e)) = lower(en)
        /\ i > 1 => ~(IsWord(text[i - 1]) /\ IsWord(text[i]))
        /\ e < Len(text) => ~(IsWord(text[e]) /\ IsWord(text[e + 1]))

\* text with every occurrence of the phrase en replaced by fr, from position i on
RECURSIVE ReplacePhrase(_, _, _, _)
ReplacePhrase(text, i, en, fr) ==
    IF i > Len(text) THEN <<>>
    ELSE IF PhraseAt(text, i, en) THEN fr \o ReplacePhrase(text, i + Len(en), en, fr)
    ELSE <<text[i]>> \o ReplacePhrase(text, i + 1, en, fr)

\* the value with the phrases of translate_summary replaced one after the other
ReplaceAll(value) ==
    LET v1 == ReplacePhrase(value, 1, AIRBNB_BLOCKED, FR_BLOCKED)
        v2 == ReplacePhrase(v1, 1, RESERVED, FR_AIRBNB)
    IN  ReplacePhrase(v2, 1, CLOSED_NA, FR_BOOKING)

\* C16: in the value of a SUMMARY line every occurrence of a dictionary phrase
\* as whole words, in any letter case, is replaced by its translation, also
\* inside a longer value, and a value without such a phrase stays as it is
C16_PhrasesReplaced ==
    t_pc = "done" =>
        \A i \in DOMAIN TIn :
            (NamedSummary(TIn[i]) /\ HasColon(TIn[i]) /\ i \in DOMAIN TOut /\ HasColon(TOut[i]))
                => ValueAfterColon(TOut[i]) = ReplaceAll(ValueAfterColon(TIn[i]))


(***************************************************************************)
(* sync_all_calendars, sync_calendar, fetch_ical, validate_url             *)
(* (src/sync_service.py)                                                   *)
(***************************************************************************)
\* a URL as urlparse sees it: its scheme and its host; the empty string has
\* neither and no path
Url(scheme, host) == [scheme |-> scheme, host |-> host, path |-> "/cal.ics"]
EmptyUrl == [scheme |-> "", host |-> "", path |-> ""]

blocked_hosts == {"localhost", "127.0.0.1", "0.0.0.0", "::1"}

\* lines 40-65
validate_url(url) ==
    /\ url.scheme \in {"http", "https"}
    /\ url.host # ""
    /\ url.host \notin blocked_hosts

\* src/config.py line 26, the default
MAX_RETRIES == 3

\* line 25
status_forcelist == {429, 500, 502, 503, 504}

\* variant: the session allows one retry more
retry_allowed_more(retries) == retries <= MAX_RETRIES

\* lines 22-27: Retry(total=MAX_RETRIES) allows MAX_RETRIES retries after the
\* first attempt
retry_allowed(retries) == retries < MAX_RETRIES

DOWNLOAD_FAILED == "Échec du téléchargement"

\* lines 135-142 and 151-152, 157-159
result_of(calendar, success, error_message) ==
    [calendar_id |-> calendar.id, success |-> success, error_message |-> error_message]

\* variant: an exception of sync_calendar leaves no result
on_exception_lost(results, calendar) == results

\* lines 190-199
on_exception(results, calendar) ==
    Append(results, result_of(calendar, FALSE, "unexpected"))

CalIds == <<"c1", "c2", "c3", "c4">>

\* the URLs of the calendars: accepted ones and one of each kind validate_url
\* rejects
SyncUrls ==
    { Url("https", "airbnb.com"), Url("http", "127.0.0.1"), Url("ftp", "airbnb.com"),
      Url("https", ""), EmptyUrl }

\* the statuses a request is answered with
Statuses == {200, 404, 503}

InitSyncAll ==
    /\ s_pc = "loop"
    /\ \E n \in 0..MaxCals : \E us \in [1..n -> SyncUrls] :
          s_calendars = [i \in 1..n |-> [id |-> CalIds[i], url |-> us[i]]]
    /\ s_i = 1 /\ s_retries = 0 /\ s_results = <<>> /\ s_requests = <<>>
    /\ MergeIdle /\ ParseIdle /\ KeyIdle /\ IcalIdle /\ IdemIdle /\ FoldIdle /\ TransIdle /\ FusionIdle /\ ExportIdle /\ StorageIdle /\ AppIdle /\ SourcesIdle /\ SummaryIdle

\* lines 182-188 up to line 78-80 of fetch_ical: the URL is validated; a
\* rejected URL ends sync_calendar with a failure and no request
SyncNext ==
    /\ s_pc = "loop" /\ s_i <= Len(s_calendars)
    /\ LET calendar == s_calendars[s_i]
       IN  IF validate_url(calendar.url)
           THEN /\ s_pc' = "fetch"
                /\ s_retries' = 0
                /\ UNCHANGED <<s_i, s_results, fusionVars, exportVars, dbVars, appVars, srcVars, sumVars>>
           ELSE /\ s_results' = Append(s_results, result_of(calendar, FALSE, DOWNLOAD_FAILED))
                /\ s_i' = s_i + 1
                /\ UNCHANGED <<s_pc, s_retries, fusionVars, exportVars, dbVars, appVars, srcVars, sumVars>>
    /\ UNCHANGED <<s_calendars, s_requests, mergeVars, parseVars, keyVars, icalVars, storeVars, idemVars, foldVars, transVars, fusionVars, exportVars, dbVars, appVars, srcVars, sumVars>>

\* lines 85-121: one request of http_session.get and its answer; a status of
\* status_forcelist is retried while a retry is left, any other status than
\* 200 and the last retried status end fetch_ical with None
Attempt ==
    /\ s_pc = "fetch"
    /\ \E status \in Statuses :
          LET calendar == s_calendars[s_i]
          IN  /\ s_requests' = Append(s_requests, [cal |-> s_i, url |-> calendar.url, status |-> status])
              /\ IF status \in status_forcelist /\ retry_allowed(s_retries)
                 THEN /\ s_retries' = s_retries + 1
                      /\ UNCHANGED <<s_pc, s_i, s_results, fusionVars, exportVars, dbVars, appVars, srcVars, sumVars>>
                 ELSE /\ s_results' = Append(s_results,
                                         IF status = 200 THEN result_of(calendar, TRUE, "None")
                                         ELSE result_of(calendar, FALSE, DOWNLOAD_FAILED))
                      /\ s_i' = s_i + 1
                      /\ s_pc' = "loop"
                      /\ s_retries' = 0
    /\ UNCHANGED <<s_calendars, mergeVars, parseVars, keyVars, icalVars, storeVars, idemVars, foldVars, transVars, fusionVars, exportVars, dbVars, appVars, srcVars, sumVars>>

\* lines 190-199: sync_calendar ends with an exception
SyncRaises ==
    /\ s_pc = "loop" /\ s_i <= Len(s_calendars)
    /\ s_results' = on_exception(s_results, s_calendars[s_i])
    /\ s_i' = s_i + 1
    /\ UNCHANGED <<s_pc, s_calendars, s_retries, s_requests, mergeVars, parseVars, keyVars, icalVars, storeVars, idemVars, foldVars, transVars, fusionVars, exportVars, dbVars, appVars, srcVars, sumVars>>

\* lines 201-209
SyncReturn ==
    /\ s_pc = "loop" /\ s_i > Len(s_calendars)
    /\ s_pc' = "done"
    /\ UNCHANGED <<s_calendars, s_i, s_retries, s_results, s_requests, mergeVars, parseVars, keyVars, icalVars, storeVars, idemVars, foldVars, transVars, fusionVars, exportVars, dbVars, appVars, srcVars, sumVars>>

NextSyncAll == SyncNext \/ Attempt \/ SyncRaises \/ SyncReturn

SpecSyncAll == InitSyncAll /\ [][NextSyncAll]_vars

\* the requests sent for the calendar at position i
RequestsOf(i) == SelectSeq(s_requests, LAMBDA r : r.cal = i)

\* the download of the calendar at position i is over, and every request of
\* it was answered with a status of status_forcelist
OnlyTransient(i) ==
    /\ i \in DOMAIN s_results
    /\ RequestsOf(i) # <<>>
    /\ \A k \in DOMAIN RequestsOf(i) : RequestsOf(i)[k].status \in status_forcelist

\* C18 as stated: a source that answers every request with a transient status
\* is attempted exactly MAX_RETRIES times and then reported as failed; no
\* source is attempted more than MAX_RETRIES times
C18_ExactlyMaxRetries ==
    /\ \A i \in DOMAIN s_calendars : Len(RequestsOf(i)) <= MAX_RETRIES
    /\ \A i \in DOMAIN s_calendars :
          OnlyTransient(i) => Len(RequestsOf(i)) = MAX_RETRIES /\ ~s_results[i].success

\* C18 amended: a source that answers every request with a transient status
\* is attempted MAX_RETRIES + 1 times, the first attempt and MAX_RETRIES
\* retries, and then reported as failed; no source is attempted more often
C18_FirstAttemptAndRetries ==
    /\ \A i \in DOMAIN s_calendars : Len(RequestsOf(i)) <= MAX_RETRIES + 1
    /\ \A i \in DOMAIN s_calendars :
          OnlyTransient(i) => Len(RequestsOf(i)) = MAX_RETRIES + 1 /\ ~s_results[i].success

\* a calendar answered 503 to every request and its download was given up
C18_Witness ==
    \E i \in DOMAIN s_calendars :
        /\ OnlyTransient(i)
        /\ Len(RequestsOf(i)) > 1
        /\ s_results[i].error_message = DOWNLOAD_FAILED

\* C19: a run over N calendars returns N results, the i-th for the i-th
\* calendar, whatever fails; until then there is one result for each calendar
\* the loop has passed
C19_OneResultPerCalendar ==
    /\ s_pc \in {"loop", "fetch", "done"} =>
          /\ Len(s_results) = s_i - 1
          /\ \A i \in DOMAIN s_results : s_results[i].calendar_id = s_calendars[i].id
    /\ s_pc = "done" => Len(s_results) = Len(s_calendars)

\* a calendar ended with an exception and the one after it was downloaded
C19_Witness ==
    /\ s_pc = "done"
    /\ \E i \in DOMAIN s_results :
          /\ i + 1 \in DOMAIN s_results
          /\ s_results[i].error_message = "unexpected"
          /\ s_results[i + 1].success


(***************************************************************************)
(* POST /sync of fusion_service.py: fetch, merge_ics, write of OUTFILE     *)
(***************************************************************************)
Origins == {"A", "B"}

\* the configured URLs: none, an accepted one, and hosts validate_url rejects
FusionUrls == {EmptyUrl, Url("https", "airbnb.com"), Url("http", "127.0.0.1"), Url("https", "localhost")}

\* the texts a source answers with
FetchedTexts ==
    { join(<<BEGIN_VEVENT, L_UID1, L_SUM_R, END_VEVENT>>),
      join(<<BEGIN_VEVENT, L_UID1, L_SUM_C, END_VEVENT, BEGIN_VEVENT, L_UID2, END_VEVENT>>) }

\* the file an earlier run has written
OldFile == Str(merged(Str(<<>>), Str(<<>>)))

InitFusion ==
    /\ g_pc = "start"
    /\ g_urls \in [Origins -> FusionUrls]
    /\ g_task = [o \in Origins |-> "pending"]
    /\ g_text = [o \in Origins |-> None]
    /\ g_requests = <<>> /\ g_merged = None /\ g_response = 0
    /\ g_file \in {None, OldFile}
    /\ MergeIdle /\ ParseIdle /\ KeyIdle /\ IcalIdle /\ IdemIdle /\ FoldIdle /\ TransIdle /\ SyncIdle /\ ExportIdle /\ StorageIdle /\ AppIdle /\ SourcesIdle /\ SummaryIdle

\* lines 98-101: without any URL the answer is 400
SyncBegin ==
    /\ g_pc = "start"
    /\ IF g_urls["A"] = EmptyUrl /\ g_urls["B"] = EmptyUrl
       THEN g_response' = 400 /\ g_pc' = "done"
       ELSE g_pc' = "gather" /\ UNCHANGED g_response
    /\ UNCHANGED <<g_urls, g_task, g_text, g_requests, g_merged, g_file, mergeVars, parseVars, keyVars, icalVars, storeVars, idemVars, foldVars, transVars, syncVars, exportVars, dbVars, appVars, srcVars, sumVars>>

\* lines 71-83: fetch(url) of one origin; an empty URL gives "" without a
\* request, any other URL is requested, and a request that fails raises.
\* The tasks of asyncio.gather run in any order, and a task goes on after the
\* other one has failed
Fetch(o) ==
    /\ g_pc \in {"gather", "done"} /\ g_response # 400
    /\ g_task[o] = "pending"
    /\ IF g_urls[o] = EmptyUrl
       THEN /\ g_task' = [g_task EXCEPT ![o] = "ok"]
            /\ g_text' = [g_text EXCEPT ![o] = Str(<<>>)]
            /\ UNCHANGED g_requests
       ELSE /\ g_requests' = Append(g_requests, [origin |-> o, url |-> g_urls[o]])
            /\ \/ \E t \in FetchedTexts :
                     /\ g_task' = [g_task EXCEPT ![o] = "ok"]
                     /\ g_text' = [g_text EXCEPT ![o] = Str(t)]
               \/ /\ g_task' = [g_task EXCEPT ![o] = "failed"]
                  /\ UNCHANGED g_text
    /\ UNCHANGED <<g_pc, g_urls, g_merged, g_file, g_response, mergeVars, parseVars, keyVars, icalVars, storeVars, idemVars, foldVars, transVars, syncVars, exportVars, dbVars, appVars, srcVars, sumVars>>

\* lines 103-107 and 114-116: the exception of a fetch task leaves gather and
\* is answered with 500
GatherFails ==
    /\ g_pc = "gather"
    /\ \E o \in Origins : g_task[o] = "failed"
    /\ g_response' = 500
    /\ g_pc' = "done"
    /\ UNCHANGED <<g_urls, g_task, g_text, g_requests, g_merged, g_file, mergeVars, parseVars, keyVars, icalVars, storeVars, idemVars, foldVars, transVars, syncVars, exportVars, dbVars, appVars, srcVars, sumVars>>

\* lines 108-110: merge_ics, then open(OUTFILE, "w"), which empties the file;
\* makedirs or open may fail
MergeAndOpen ==
    /\ g_pc = "gather"
    /\ \A o \in Origins : g_task[o] = "ok"
    /\ g_merged' = Str(merged(g_text["A"], g_text["B"]))
    /\ \E io_ok \in BOOLEAN :
          IF io_ok
          THEN g_file' = Str(<<>>) /\ g_pc' = "write" /\ UNCHANGED g_response
          ELSE g_response' = 500 /\ g_pc' = "done" /\ UNCHANGED g_file
    /\ UNCHANGED <<g_urls, g_task, g_text, g_requests, mergeVars, parseVars, keyVars, icalVars, storeVars, idemVars, foldVars, transVars, syncVars, exportVars, dbVars, appVars, srcVars, sumVars>>

\* lines 111-116: f.write(merged) and the answer; the write may fail
WriteFile ==
    /\ g_pc = "write"
    /\ \E io_ok \in BOOLEAN :
          IF io_ok
          THEN g_file' = g_merged /\ g_response' = 200
          ELSE g_response' = 500 /\ UNCHANGED g_file
    /\ g_pc' = "done"
    /\ UNCHANGED <<g_urls, g_task, g_text, g_requests, g_merged, mergeVars, parseVars, keyVars, icalVars, storeVars, idemVars, foldVars, transVars, syncVars, exportVars, dbVars, appVars, srcVars, sumVars>>

\* lines 118-126: GET /export answers 404 without a file and returns the
\* content of OUTFILE otherwise.  The handler runs on the event loop of
\* sync, so it runs while sync waits for the fetch tasks and before and
\* after sync, never between open and f.write
Export ==
    /\ g_pc \in {"start", "gather", "done"}
    /\ IF g_file.isNone
       THEN x_status' = 404 /\ x_body' = <<>>
       ELSE x_status' = 200 /\ x_body' = g_file.s
    /\ UNCHANGED <<mergeVars, parseVars, keyVars, icalVars, storeVars, idemVars, foldVars, transVars, syncVars, fusionVars, dbVars, appVars, srcVars, sumVars>>

NextFusion ==
    \/ SyncBegin
    \/ \E o \in Origins : Fetch(o)
    \/ GatherFails
    \/ MergeAndOpen
    \/ WriteFile
    \/ Export

SpecFusion == InitFusion /\ [][NextFusion]_vars

\* C17: every request that is sent, on either fetch path, goes to a URL that
\* validate_url accepts
C17_NoRequestToRejectedUrl ==
    /\ \A k \in DOMAIN g_requests : validate_url(g_requests[k].url)
    /\ \A k \in DOMAIN s_requests : validate_url(s_requests[k].url)

\* the text of origin o as the merge is to see it: "" for a failed fetch
TextOrEmpty(o) == IF g_task[o] = "ok" THEN g_text[o] ELSE Str(<<>>)

\* the fetch of one origin has failed and the other origin was downloaded
OneFetchFailed ==
    \E o \in Origins : \E p \in Origins :
        /\ g_task[o] = "failed"
        /\ g_task[p] = "ok" /\ g_urls[p] # EmptyUrl

\* C20: when one fetch fails and the other source was downloaded, the sync
\* ends with the merge of the downloaded text and an empty text, and a sync
\* answered with 200 has written that document
C20_FailedSourceIsEmpty ==
    (g_pc = "done" /\ OneFetchFailed) =>
        /\ g_merged = Str(merged(TextOrEmpty("A"), TextOrEmpty("B")))
        /\ g_response = 200 => g_file = g_merged


\* C21: a document GET /export returns is the complete document of an
\* earlier run or the complete document this run has merged, never an empty
\* or cut one
C21_ExportedDocumentComplete ==
    x_status = 200 =>
        \/ x_body = OldFile.s
        \/ ~g_merged.isNone /\ x_body = g_merged.s


(***************************************************************************)
(* Storage (src/src/storage.py): add_calendar, save_events, delete_calendar*)
(*                                                                         *)
(* Every operation runs under the lock and ends with _save, which writes   *)
(* _data to the data file, or logs the IOError and returns False.          *)
(***************************************************************************)
MaxOps == 4
MaxEvents == 2

StorageIds == {"c1", "c2"}

\* the events a caller hands to save_events: with or without uid
StorageEvents ==
    [uid : {<<>>, <<"1">>, <<"2">>}, summary : {<<"Reserved">>},
     start : {<<"20240101">>}, calendar_id : {""}]

\* add_calendar, lines 58-69: the record of a new calendar
new_calendar(calendar_id) == [id |-> calendar_id, last_sync |-> FALSE, event_count |-> 0]

\* add_calendar, line 69: _data["calendars"][calendar_id] = calendar
add_calendar(data, calendar_id) ==
    [data EXCEPT !.calendars =
        [c \in DOMAIN data.calendars \cup {calendar_id} |->
            IF c = calendar_id THEN new_calendar(calendar_id) ELSE data.calendars[c]]]

\* delete_calendar, lines 126-134: the events of the calendar go, then the calendar
delete_calendar(data, calendar_id) ==
    LET others == {u \in DOMAIN data.events : data.events[u].calendar_id # calendar_id}
    IN  [calendars |-> [c \in DOMAIN data.calendars \ {calendar_id} |-> data.calendars[c]],
         events |-> [u \in others |-> data.events[u]]]

\* _save, lines 34-42: True and the file holds _data, or False and the file is
\* as it was
Save(io_ok) ==
    /\ db_saved' = io_ok
    /\ db_disk' = IF io_ok THEN db_data' ELSE db_disk

InitStorage ==
    /\ db_data = EmptyData /\ db_disk = EmptyData /\ db_used = {} /\ db_op = "none"
    /\ db_cal = "" /\ db_in = <<>> /\ db_ret = NoReturn /\ db_saved = TRUE /\ db_n = 0
    /\ MergeIdle /\ ParseIdle /\ KeyIdle /\ IcalIdle /\ IdemIdle /\ FoldIdle /\ TransIdle /\ SyncIdle /\ FusionIdle /\ ExportIdle /\ AppIdle /\ SourcesIdle /\ SummaryIdle

\* add_calendar: uuid4 issues an id never issued before
AddCalendar ==
    /\ db_n < MaxOps
    /\ \E calendar_id \in StorageIds \ db_used, io_ok \in BOOLEAN :
          /\ db_data' = add_calendar(db_data, calendar_id)
          /\ db_used' = db_used \cup {calendar_id}
          /\ db_cal' = calendar_id
          /\ db_ret' = [NoReturn EXCEPT !.calendar = calendar_id]
          /\ Save(io_ok)
    /\ db_op' = "add_calendar" /\ db_in' = <<>> /\ db_n' = db_n + 1
    /\ UNCHANGED <<mergeVars, parseVars, keyVars, icalVars, storeVars, idemVars, foldVars, transVars, syncVars, fusionVars, exportVars, appVars, srcVars, sumVars>>

\* save_events for a calendar that exists or has existed (its sync began
\* before it was deleted)
StorageSaveEvents ==
    /\ db_n < MaxOps
    /\ \E calendar_id \in db_used, events \in SeqsUpTo(StorageEvents, MaxEvents),
          io_ok \in BOOLEAN :
          LET r == save_events(db_data, calendar_id, events)
          IN  /\ db_data' = r.data
              /\ db_cal' = calendar_id
              /\ db_in' = events
              /\ db_ret' = [NoReturn EXCEPT !.count = r.ret]
              /\ Save(io_ok)
    /\ db_op' = "save_events" /\ db_n' = db_n + 1
    /\ UNCHANGED <<db_used, mergeVars, parseVars, keyVars, icalVars, storeVars, idemVars, foldVars, transVars, syncVars, fusionVars, exportVars, appVars, srcVars, sumVars>>

\* delete_calendar of a calendar that exists: True
DeleteCalendar ==
    /\ db_n < MaxOps
    /\ \E calendar_id \in DOMAIN db_data.calendars, io_ok \in BOOLEAN :
          /\ db_data' = delete_calendar(db_data, calendar_id)
          /\ db_cal' = calendar_id
          /\ db_ret' = [NoReturn EXCEPT !.deleted = TRUE]
          /\ Save(io_ok)
    /\ db_op' = "delete_calendar" /\ db_in' = <<>> /\ db_n' = db_n + 1
    /\ UNCHANGED <<db_used, mergeVars, parseVars, keyVars, icalVars, storeVars, idemVars, foldVars, transVars, syncVars, fusionVars, exportVars, appVars, srcVars, sumVars>>

\* delete_calendar of an unknown calendar, lines 123-124: False, nothing saved
DeleteUnknown ==
    /\ db_n < MaxOps
    /\ \E calendar_id \in StorageIds \ DOMAIN db_data.calendars :
          db_cal' = calendar_id
    /\ db_ret' = NoReturn
    /\ db_op' = "delete_calendar" /\ db_in' = <<>> /\ db_n' = db_n + 1
    /\ UNCHANGED <<db_data, db_disk, db_used, db_saved, mergeVars, parseVars, keyVars, icalVars, storeVars, idemVars, foldVars, transVars, syncVars, fusionVars, exportVars, appVars, srcVars, sumVars>>

\* get_events(), lines 168-178: the stored events in a list; the sort by start
\* keeps the order of the dictionary among events of one start
get_events(data) ==
    {order \in SeqsUpTo(DOMAIN data.events, Cardinality(DOMAIN data.events)) :
        /\ Len(order) = Cardinality(DOMAIN data.events)
        /\ \A i, j \in DOMAIN order : i # j => order[i] # order[j]}

\* export_calendar of src/src/api.py: 404 when no event is stored, else the
\* calendar with one VEVENT, named here by its uid, for each stored event
ExportCalendar ==
    /\ \E events \in get_events(db_data) :
          IF events = <<>>
          THEN x_status' = 404 /\ x_body' = <<>>
          ELSE x_status' = 200 /\ x_body' = events
    /\ UNCHANGED <<mergeVars, parseVars, keyVars, icalVars, storeVars, idemVars, foldVars, transVars, syncVars, fusionVars, dbVars, appVars, srcVars, sumVars>>

NextStorage ==
    AddCalendar \/ StorageSaveEvents \/ DeleteCalendar \/ DeleteUnknown \/ ExportCalendar

SpecStorage == InitStorage /\ [][NextStorage]_vars

\* C22: an operation that reports success (the calendar record, the event
\* count, True) has updated the data file: the file holds what the store holds.
C22_SuccessMeansSaved ==
    (\/ db_op \in {"add_calendar", "save_events"}
     \/ db_op = "delete_calendar" /\ db_ret.deleted) => db_disk = db_data


\* C23: a calendar with zero events is a successful result: an export that
\* follows a save_events after which no event is stored answers 200, not an
\* error.
C23_EmptyCalendarExported ==
    [][(/\ db_op = "save_events"
        /\ DOMAIN db_data.events = {}
        /\ UNCHANGED dbVars
        /\ x_status' # x_status) => x_status' = 200]_vars


(***************************************************************************)
(* AirbnBook (src/src/main.py): start, the sync thread and stop            *)
(*                                                                         *)
(* The main thread goes from init to serving (uvicorn.run), to stopping    *)
(* (stop has set running to False and waits in join) and to exited         *)
(* (sys.exit).  The sync thread is a daemon thread: it ends with the       *)
(* process.  Its positions are the lines of _sync_loop: first (line 44),   *)
(* do_sync (inside _do_sync), while (line 46), for (lines 48-51), if       *)
(* (line 53), call (line 54) and ended (line 56).                          *)
(***************************************************************************)
\* the passes of the waiting loop, Config.SYNC_INTERVAL * 60 in the program
MaxTicks == 3
\* the syncs one run begins
MaxSyncs == 4

InitApp ==
    /\ a_main = "init" /\ a_running = FALSE /\ a_thread = "none" /\ a_ticks = 0 /\ a_syncs = 0
    /\ MergeIdle /\ ParseIdle /\ KeyIdle /\ IcalIdle /\ IdemIdle /\ FoldIdle /\ TransIdle /\ SyncIdle /\ FusionIdle /\ ExportIdle /\ StorageIdle /\ SourcesIdle /\ SummaryIdle

AppRest == <<mergeVars, parseVars, keyVars, icalVars, storeVars, idemVars, foldVars, transVars, syncVars, fusionVars, exportVars, dbVars>>

\* start, lines 155-165: running is set, the sync thread starts, the server runs
Start ==
    /\ a_main = "init"
    /\ a_running' = TRUE
    /\ a_thread' = "first"
    /\ a_main' = "serving"
    /\ UNCHANGED <<a_ticks, a_syncs, AppRest, srcVars, sumVars>>

\* stop, lines 178-189, called when the server returns or a signal arrives:
\* running is cleared and the main thread waits for the sync thread
Stop ==
    /\ a_main = "serving"
    /\ a_running
    /\ a_running' = FALSE
    /\ a_main' = "stopping"
    /\ UNCHANGED <<a_thread, a_ticks, a_syncs, AppRest, srcVars, sumVars>>

\* stop, lines 187-194: the sync thread has ended, join returns, sys.exit
JoinReturns ==
    /\ a_main = "stopping"
    /\ a_thread = "ended"
    /\ a_main' = "exited"
    /\ UNCHANGED <<a_running, a_thread, a_ticks, a_syncs, AppRest, srcVars, sumVars>>

\* stop, lines 189-194: join(timeout=5) returns while the sync thread is alive,
\* and sys.exit ends the process and its daemon thread.  The waiting loop
\* sleeps one second at a time, so only a thread that is in a sync, or about
\* to begin one, is alive after five seconds.
JoinTimeout ==
    /\ a_main = "stopping"
    /\ a_thread \in {"first", "call", "do_sync"}
    /\ a_main' = "exited"
    /\ UNCHANGED <<a_running, a_thread, a_ticks, a_syncs, AppRest, srcVars, sumVars>>

\* the sync thread runs as long as the process does
ThreadRuns == a_main # "exited"

\* _sync_loop, line 44: the first sync begins, whatever running is
FirstSync ==
    /\ ThreadRuns
    /\ a_thread = "first"
    /\ a_syncs < MaxSyncs
    /\ a_thread' = "do_sync"
    /\ a_syncs' = a_syncs + 1
    /\ UNCHANGED <<a_main, a_running, a_ticks, AppRest, srcVars, sumVars>>

\* _do_sync, lines 58-83, returns (every exception is caught and logged)
SyncReturns ==
    /\ ThreadRuns
    /\ a_thread = "do_sync"
    /\ a_thread' = "while"
    /\ UNCHANGED <<a_main, a_running, a_ticks, a_syncs, AppRest, srcVars, sumVars>>

\* line 46: while self.running
WhileRunning ==
    /\ ThreadRuns
    /\ a_thread = "while"
    /\ IF a_running
       THEN a_thread' = "for" /\ a_ticks' = MaxTicks
       ELSE a_thread' = "ended" /\ a_ticks' = a_ticks
    /\ UNCHANGED <<a_main, a_running, a_syncs, AppRest, srcVars, sumVars>>

\* lines 48-51: one pass of the waiting loop
WaitTick ==
    /\ ThreadRuns
    /\ a_thread = "for"
    /\ IF a_ticks = 0 \/ ~a_running
       THEN a_thread' = "if" /\ a_ticks' = a_ticks
       ELSE a_thread' = "for" /\ a_ticks' = a_ticks - 1
    /\ UNCHANGED <<a_main, a_running, a_syncs, AppRest, srcVars, sumVars>>

\* line 53: if self.running
IfRunning ==
    /\ ThreadRuns
    /\ a_thread = "if"
    /\ a_thread' = IF a_running THEN "call" ELSE "while"
    /\ UNCHANGED <<a_main, a_running, a_ticks, a_syncs, AppRest, srcVars, sumVars>>

\* line 54: the next sync begins
CallSync ==
    /\ ThreadRuns
    /\ a_thread = "call"
    /\ a_syncs < MaxSyncs
    /\ a_thread' = "do_sync"
    /\ a_syncs' = a_syncs + 1
    /\ UNCHANGED <<a_main, a_running, a_ticks, AppRest, srcVars, sumVars>>

NextApp ==
    \/ Start \/ Stop \/ JoinReturns \/ JoinTimeout
    \/ FirstSync \/ SyncReturns \/ WhileRunning \/ WaitTick \/ IfRunning \/ CallSync

SpecApp == InitApp /\ [][NextApp]_vars

\* C24: stopping is cooperative: the process does not exit while a sync of the
\* sync thread is still running.
C24_NoExitDuringSync ==
    a_main = "exited" => a_thread # "do_sync"


\* C29: once stop() has set running to False, the sync loop begins no further
\* sync.
C29_NoSyncAfterStop ==
    [][(a_main = "stopping" /\ ~a_running) =>
          ~(a_thread # "do_sync" /\ a_thread' = "do_sync")]_vars


\* the stored events of one calendar
EventsOf(data, calendar_id) ==
    {u \in DOMAIN data.events : data.events[u].calendar_id = calendar_id}

\* a step of save_events
IsSaveEvents == db_n' = db_n + 1 /\ db_op' = "save_events"

\* C25: save_events(c, events) replaces only the events of calendar c: every
\* stored event of another calendar is still stored afterwards, unchanged and
\* attributed to its calendar.
C25_OtherCalendarsKept ==
    [][IsSaveEvents =>
          \A u \in DOMAIN db_data.events :
              db_data.events[u].calendar_id # db_cal' =>
                  /\ u \in DOMAIN db_data'.events
                  /\ db_data'.events[u] = db_data.events[u]]_vars


\* C26: the event_count of every calendar is the number of stored events of
\* that calendar, and save_events returns the number of events it stored.
C26_CountsAgree ==
    /\ \A c \in DOMAIN db_data.calendars :
          db_data.calendars[c].event_count = Cardinality(EventsOf(db_data, c))
    /\ db_op = "save_events" =>
          db_ret.count = Cardinality(EventsOf(db_data, db_cal))

\* C27: the calendar_id of every stored event is the id of a calendar that
\* exists.
C27_NoOrphanEvents ==
    \A u \in DOMAIN db_data.events :
        db_data.events[u].calendar_id \in DOMAIN db_data.calendars


(***************************************************************************)
(* The routes of /api/sources (src/src/api.py): create_source,             *)
(* update_source, delete_source                                            *)
(*                                                                         *)
(* The handlers are coroutines without an await: each runs as one step.    *)
(* They read and write the stored list through get_sources, add_source     *)
(* and save_sources of the storage.                                        *)
(***************************************************************************)
MaxRequests == 3

SourceNames == {<<"a">>, <<"a", "http://b/">>}
SourceUrls == {<<"http://b/", "http://c/">>, <<"http://c/">>}
SourceTypes == {<<"airbnb">>, <<"vrbo">>}

\* create_source, line 209: the id is the head of the md5 of name and url,
\* taken here as the text that is hashed
source_id(name, url) == name \o url

\* get_sources: the stored list
get_sources(sources) == sources

\* add_source: the new source is stored after the others
add_source(sources, source) == Append(sources, source)

\* save_sources: the list handed in is the stored list
save_sources(sources) == sources

\* the first index of the source with that id, 0 without one
index_of(sources, id) ==
    IF \E i \in DOMAIN sources : sources[i].id = id
    THEN CHOOSE i \in DOMAIN sources :
            /\ sources[i].id = id
            /\ \A j \in 1..(i - 1) : sources[j].id # id
    ELSE 0

\* lines 201-205 and 258-263: the source types the routes accept
valid_type(source_type) == source_type \in {<<"airbnb">>, <<"booking">>}

InitSources ==
    /\ r_sources = <<>> /\ r_op = "none" /\ r_status = 0 /\ r_n = 0
    /\ MergeIdle /\ ParseIdle /\ KeyIdle /\ IcalIdle /\ IdemIdle /\ FoldIdle /\ TransIdle /\ SyncIdle /\ FusionIdle /\ ExportIdle /\ StorageIdle /\ AppIdle /\ SummaryIdle

SourcesRest == <<mergeVars, parseVars, keyVars, icalVars, storeVars, idemVars, foldVars, transVars, syncVars, fusionVars, exportVars, dbVars, appVars>>

\* POST /api/sources: 400 for an unknown type, 409 for a stored url, else the
\* source is added
CreateSource ==
    /\ r_n < MaxRequests
    /\ \E name \in SourceNames, url \in SourceUrls, source_type \in SourceTypes :
          LET existing == get_sources(r_sources)
          IN  IF ~valid_type(source_type)
              THEN r_status' = 400 /\ r_sources' = r_sources
              ELSE IF \E i \in DOMAIN existing : existing[i].url = url
              THEN r_status' = 409 /\ r_sources' = r_sources
              ELSE /\ r_status' = 201
                   /\ r_sources' = add_source(r_sources,
                          [id |-> source_id(name, url), name |-> name, url |-> url,
                           source_type |-> source_type])
    /\ r_op' = "create_source" /\ r_n' = r_n + 1
    /\ UNCHANGED <<SourcesRest, sumVars>>

\* the ids a request can name: the stored ones and one that is not stored
RequestIds == {r_sources[i].id : i \in DOMAIN r_sources} \cup {<<"none">>}

\* PUT /api/sources/{source_id}: the fields given replace those of the first
\* source with that id; 400 for an unknown type, 404 for an unknown id
UpdateSource ==
    /\ r_n < MaxRequests
    /\ \E id \in RequestIds,
          name \in {None} \cup {Str(n) : n \in SourceNames},
          url \in {None} \cup {Str(u) : u \in SourceUrls},
          source_type \in {None} \cup {Str(t) : t \in SourceTypes} :
          LET sources == get_sources(r_sources)
              i == index_of(sources, id)
          IN  IF i = 0
              THEN r_status' = 404 /\ r_sources' = r_sources
              ELSE IF ~source_type.isNone /\ ~valid_type(source_type.s)
              THEN r_status' = 400 /\ r_sources' = r_sources
              ELSE /\ r_status' = 200
                   /\ r_sources' = save_sources(
                          [sources EXCEPT
                             ![i].name = IF name.isNone THEN @ ELSE name.s,
                             ![i].url = IF url.isNone THEN @ ELSE url.s,
                             ![i].source_type = IF source_type.isNone THEN @ ELSE source_type.s])
    /\ r_op' = "update_source" /\ r_n' = r_n + 1
    /\ UNCHANGED <<SourcesRest, sumVars>>

\* DELETE /api/sources/{source_id}: the first source with that id is removed;
\* 404 for an unknown id
DeleteSource ==
    /\ r_n < MaxRequests
    /\ \E id \in RequestIds :
          LET sources == get_sources(r_sources)
              i == index_of(sources, id)
          IN  IF i = 0
              THEN r_status' = 404 /\ r_sources' = r_sources
              ELSE /\ r_status' = 200
                   /\ r_sources' = save_sources(
                          SubSeq(sources, 1, i - 1) \o SubSeq(sources, i + 1, Len(sources)))
    /\ r_op' = "delete_source" /\ r_n' = r_n + 1
    /\ UNCHANGED <<SourcesRest, sumVars>>

NextSources == CreateSource \/ UpdateSource \/ DeleteSource

SpecSources == InitSources /\ [][NextSources]_vars

\* no two stored sources have the same url or the same id
UniqueSources(sources) ==
    \A i, j \in DOMAIN sources :
        i # j => sources[i].url # sources[j].url /\ sources[i].id # sources[j].id

\* C28: after every request no two stored sources have the same url or the
\* same id, and a request answered 409 leaves the stored sources unchanged.
C28_SourcesUnique ==
    [][/\ UniqueSources(r_sources')
       /\ (r_n' = r_n + 1 /\ r_status' = 409) => r_sources' = r_sources]_vars


(***************************************************************************)
(* The translators of a summary: translate_text of src/src/utils.py,       *)
(* translate_text of src/src/api.py and translate_summary of               *)
(* convert_fr_service.py, each applied to its own result                   *)
(***************************************************************************)
\* TRANSLATION_DICT of src/src/utils.py, in the order of the dictionary
UTILS_TRANSLATION_DICT ==
    << [en |-> <<"Reserved">>, fr |-> <<"Réservé">>],
       [en |-> <<"Booked">>, fr |-> <<"Réservé">>],
       [en |-> <<"Confirmed">>, fr |-> <<"Confirmé">>],
       [en |-> <<"Airbnb">>, fr |-> <<"Airbnb">>],
       [en |-> <<"Booking", ".", "com">>, fr |-> <<"Booking", ".", "com">>],
       [en |-> <<"Check", "-", "in">>, fr |-> <<"Arrivée">>],
       [en |-> <<"Check", "-", "out">>, fr |-> <<"Départ">>],
       [en |-> <<"Blocked">>, fr |-> <<"Bloqué">>],
       [en |-> <<"Not", " ", "available">>, fr |-> <<"Indisponible">>] >>

\* TRANSLATION_DICT of src/src/api.py
API_TRANSLATION_DICT ==
    << [en |-> <<"Reserved">>, fr |-> <<"Réservé">>],
       [en |-> <<"Booked">>, fr |-> <<"Réservé">>],
       [en |-> <<"Confirmed">>, fr |-> <<"Confirmé">>],
       [en |-> <<"Not", " ", "available">>, fr |-> <<"Indisponible">>],
       [en |-> <<"Blocked">>, fr |-> <<"Bloqué">>],
       [en |-> <<"Check", "-", "in">>, fr |-> <<"Arrivée">>],
       [en |-> <<"Check", "-", "out">>, fr |-> <<"Départ">>],
       [en |-> <<"Unavailable">>, fr |-> <<"Indisponible">>],
       [en |-> <<"Closed">>, fr |-> <<"Fermé">>] >>

\* the pattern \b en \b matches at position i of text, letter case ignored;
\* when en is not escaped, its "." stands for any one character
PatternAt(text, i, en, escaped) ==
    LET e == i + Len(en) - 1
    IN  /\ e <= Len(text)
        /\ \A k \in DOMAIN en :
              IF ~escaped /\ en[k] = "."
              THEN ~IsWord(text[i + k - 1])
              ELSE lower_atom(text[i + k - 1]) = lower_atom(en[k])
        /\ i > 1 => ~(IsWord(text[i - 1]) /\ IsWord(text[i]))
        /\ e < Len(text) => ~(IsWord(text[e]) /\ IsWord(text[e + 1]))

\* re.sub(pattern, fr, text, flags=re.IGNORECASE), from position i on
RECURSIVE re_sub(_, _, _, _, _)
re_sub(text, i, en, fr, escaped) ==
    IF i > Len(text) THEN <<>>
    ELSE IF PatternAt(text, i, en, escaped)
    THEN fr \o re_sub(text, i + Len(en), en, fr, escaped)
    ELSE <<text[i]>> \o re_sub(text, i + 1, en, fr, escaped)

\* the loop over the dictionary
RECURSIVE sub_dict(_, _, _)
sub_dict(text, dict, escaped) ==
    IF dict = <<>> THEN text
    ELSE sub_dict(re_sub(text, 1, Head(dict).en, Head(dict).fr, escaped), Tail(dict), escaped)

\* re.sub(word, fr, text, flags=re.IGNORECASE) for a word without boundaries
RECURSIVE sub_word(_, _, _)
sub_word(text, word, fr) ==
    IF text = <<>> THEN <<>>
    ELSE (IF lower_atom(Head(text)) = word THEN fr ELSE <<Head(text)>>)
            \o sub_word(Tail(text), word, fr)

\* translate_text of src/src/utils.py, lines 203-223
utils_translate_text(text) ==
    LET t1 == sub_dict(text, UTILS_TRANSLATION_DICT, FALSE)
        t2 == sub_word(t1, "airbnb", <<"Airbnb">>)
    IN  sub_word(t2, "booking", <<"Booking", ".", "com">>)

\* translate_text of src/src/api.py, lines 129-138
api_translate_text(text) ==
    IF text = <<>> THEN text ELSE sub_dict(text, API_TRANSLATION_DICT, TRUE)

SummaryImpls == {"utils", "api", "convert_fr"}

translate_of(impl, value) ==
    CASE impl = "utils" -> utils_translate_text(value)
      [] impl = "api" -> api_translate_text(value)
      [] OTHER -> translate_summary(value)

SummaryAtoms ==
    {"Reserved", "reserved", "booking", "Booking", ".", "com", " ", "Airbnb", "-", "John"}

SummaryInputs ==
    SeqsUpTo(SummaryAtoms, MaxWords)
        \cup { <<"Booking", ".", "com", " ", "-", " ", "John">>,
               <<"Not", " ", "available">>, <<"Check", "-", "in">>,
               <<"Closed", " ", "-", " ", "Not", " ", "available">>,
               <<"Airbnb", " ", "(", "Not", " ", "available", ")">>,
               <<"Unavailable">>, <<"Booked">>, <<"Blocked", " ", "Confirmed">> }

InitSummary ==
    /\ u_pc = "call" /\ u_impl \in SummaryImpls /\ u_value \in SummaryInputs
    /\ u_once = <<>> /\ u_twice = <<>>
    /\ MergeIdle /\ ParseIdle /\ KeyIdle /\ IcalIdle /\ IdemIdle /\ FoldIdle /\ TransIdle /\ SyncIdle /\ FusionIdle /\ ExportIdle /\ StorageIdle /\ AppIdle /\ SourcesIdle

SummaryRest == <<mergeVars, parseVars, keyVars, icalVars, storeVars, idemVars, foldVars, transVars, syncVars, fusionVars, exportVars, dbVars, appVars, srcVars>>

\* the summary is translated
TranslateOnce ==
    /\ u_pc = "call"
    /\ u_once' = translate_of(u_impl, u_value)
    /\ u_pc' = "once"
    /\ UNCHANGED <<u_impl, u_value, u_twice, SummaryRest>>

\* the translation is translated again
TranslateAgain ==
    /\ u_pc = "once"
    /\ u_twice' = translate_of(u_impl, u_once)
    /\ u_pc' = "twice"
    /\ UNCHANGED <<u_impl, u_value, u_once, SummaryRest>>

NextSummary == TranslateOnce \/ TranslateAgain

SpecSummary == InitSummary /\ [][NextSummary]_vars

\* C30: translating a summary is idempotent for every translator: the
\* translation of a translation is that translation.
C30_TranslationIdempotent ==
    u_pc = "twice" => u_twice = u_once

====
